---- MODULE Spec2Model ----
(***************************************************************************)
(* State-machine model of CacheManager (src/unnamed/part_006, the current  *)
(* revision of src/CacheManager.ts): the entry store, the secondary index, *)
(* the LRU order, the deduplicating lazy loader, the sync engine, the hook *)
(* bridge and the optional Redis replication layer.                        *)
(*                                                                         *)
(* JavaScript runs one handler at a time; every `await` is a suspension    *)
(* point.  Each action below is one synchronous run of code between two    *)
(* suspension points.                                                      *)
(***************************************************************************)
EXTENDS Integers, Sequences, FiniteSets, TLC

\* ---------------------------------------------------------------- bounds
MaxId == 2
MaxTime == 3
MaxFailures == 1

\* ------------------------------------------------------- program constants
Infinity == 999
JsonNull == 0

\* ------------------------------------------------------------ input sets
Ids == 1..MaxId
Emails == {"a", "b"}
MaxSlots == 2

\* String(id): identifiers are stringified before they key the Entry Store,
\* the LRU order and the "id" bucket.
Str(i) == CASE i = 1 -> "1" [] i = 2 -> "2" [] i = 3 -> "3" [] i = 4 -> "4" [] OTHER -> "n"

Row(i, e) == [id |-> i, email |-> e]

\* JavaScript object helpers: property assignment and `delete`.
MapPut(f, k, v) == [x \in (DOMAIN f) \cup {k} |-> IF x = k THEN v ELSE f[x]]
MapDel(f, k) == [x \in (DOMAIN f) \ {k} |-> f[x]]
EmptyMap == [x \in {} |-> 0]

\* Array.prototype.indexOf / splice / push on the LRU array.
SeqWithout(s, x) == SelectSeq(s, LAMBDA y : y # x)
SeqSet(s) == {s[i] : i \in 1..Len(s)}

VARIABLES
  keyFields,            \* options.keyFields (a sequence of field names)
  ttlMs,                \* options.ttlMs, 0 for null
  maxSize,              \* options.maxSize, 0 for null
  lazyReload,           \* options.lazyReload
  staleWhileRevalidate, \* options.staleWhileRevalidate
  redisEnabled,         \* a Redis client was supplied
  hasUpdatedAt,         \* the model declares an updatedAt attribute
  now,                  \* Date.now()
  db,                   \* the backing table: id -> [email, updatedAt] or absent
  redis,                \* external store: key -> JSON text of an entry
  redisUp,              \* FALSE while the external store rejects commands
  failures,             \* number of backend failures injected so far
  cache,                \* this.cache = { id, byKey }
  lruOrder,             \* this.lruOrder
  metrics,              \* this.metrics
  syncing,              \* this.syncing
  lastSyncAt,           \* this.lastSyncAt, 0 for null
  syncCall,             \* position of each sync() invocation
  loadingPromises,      \* this.loadingPromises: load key -> promise id
  fetches,              \* backing-store calls issued by the lazy loader
  call,                 \* position of each read invocation
  errorListeners,       \* number of listeners registered for "error"
  errors,               \* causes passed to emit("error", ...)
  modelHooks,           \* handler triples registered on the model
  hookRefs,             \* this._hookRefs is set
  cleanupTimer,         \* this.cleanupTimer is set
  budget,               \* operations the environment may still start
  hasGetAttributes,     \* the model provides getAttributes()
  ready,                \* this.ready
  readyPromise,         \* this.readyPromise: "none", "pending", "resolved", "rejected"
  refreshTimer,         \* this.refreshTimer is set
  minAutoSyncInterval,  \* this.minAutoSyncInterval
  lastAutoSync,         \* this.lastAutoSync, 0 until the timer first ran a sync
  refreshCall,          \* the auto-refresh callback: its position and its attempts
  autoCall,             \* position of the autoLoad() invocation
  waitCall,             \* position of the waitUntilReady() invocation
  cluster,              \* per instance: how far _initClusterSync has come
  inbox,                \* per instance: channel messages not yet handled
  published,            \* number of messages the channel accepted
  emitted,              \* "itemInvalidated" and "ready" notifications emitted
  peer,                 \* the cache of instance "B" on the same channel
  destroyCall,          \* the destroy() invocation: its position and how many returned
  multi,                \* MultiModelCacheManager: initialized, managers, "error" listeners
  managed,              \* per model name: the life cycle of its CacheManager
  mmCall                \* the orchestrator's init, waitUntilReady, destroy and last query

vars == <<keyFields, ttlMs, maxSize, lazyReload, staleWhileRevalidate, redisEnabled,
          hasUpdatedAt, now, db, redis, redisUp, failures, cache, lruOrder, metrics,
          syncing, lastSyncAt, syncCall, loadingPromises, fetches, call,
          errorListeners, errors, modelHooks, hookRefs, cleanupTimer, budget,
          hasGetAttributes, ready, readyPromise, refreshTimer, autoCall, waitCall,
          minAutoSyncInterval, lastAutoSync, refreshCall,
          cluster, inbox, published, emitted, peer, destroyCall, multi, managed, mmCall>>

\* Slots for the read invocations and the sync invocations in flight.  A new
\* invocation takes the lowest free slot, so slot 2 is in use only while
\* slot 1 is.
Callers == DOMAIN call
Syncers == DOMAIN syncCall

configVars == <<keyFields, ttlMs, maxSize, lazyReload, staleWhileRevalidate,
                redisEnabled, hasUpdatedAt, hasGetAttributes, minAutoSyncInterval>>
refreshVars == <<lastAutoSync, refreshCall>>

\* ------------------------------------------------------------ the store
\* The mutable store the private helpers work on, as one value so that a
\* handler that calls several helpers in a row is one action.
Store == [id |-> cache.id, byKey |-> cache.byKey, lru |-> lruOrder,
          evictions |-> metrics.evictions, redis |-> redis]

\* Object identity of entries: every `{ data, expiresAt }` literal and every
\* JSON.parse result is a new object.  oid is the smallest identity no live
\* entry carries.
UsedOids(S) ==
  {S.id[k].oid : k \in DOMAIN S.id} \cup
  UNION {{S.byKey[f][v].oid : v \in DOMAIN S.byKey[f]} : f \in DOMAIN S.byKey}

FreshOid(S) ==
  CHOOSE n \in 0..Cardinality(UsedOids(S)) :
    /\ n \notin UsedOids(S)
    /\ \A m \in 0..Cardinality(UsedOids(S)) : m < n => m \in UsedOids(S)

\* _getExpiryTime
ExpiryTime(t) == IF ttlMs # 0 THEN t + ttlMs ELSE Infinity

\* a key field of a record that holds null
NullValue == "<null>"

\* plain[keyField], stringified as the bucket key
FieldVal(data, f) == IF f = "id" THEN Str(data.id) ELSE data.email

\* JSON.stringify(entry) / JSON.parse(text): the object identity is lost and
\* Infinity is written as null.
ToJson(entry) ==
  [data |-> entry.data,
   expiresAt |-> IF entry.expiresAt = Infinity THEN JsonNull ELSE entry.expiresAt]

\* _updateLRU
UpdateLRU(lru, idStr) == Append(SeqWithout(lru, idStr), idStr)

RedisSetOrForget(S, idStr, entry) ==
  IF redisEnabled /\ redisUp THEN [S EXCEPT !.redis = MapPut(@, idStr, ToJson(entry))]
  ELSE IF redisEnabled THEN [S EXCEPT !.id = MapDel(@, idStr)]
  ELSE S

\* redisClient.set / del, fire-and-forget: applied when the store is up,
\* rejected (and only logged) when it is down.
RedisSet(S, idStr, entry) ==
  IF redisEnabled /\ redisUp THEN [S EXCEPT !.redis = MapPut(@, idStr, ToJson(entry))] ELSE S

RedisDel(S, idStr) ==
  IF redisEnabled /\ redisUp THEN [S EXCEPT !.redis = MapDel(@, idStr)] ELSE S

\* _removeById
RemoveById(S, idStr) ==
  RedisDel([S EXCEPT !.id = MapDel(@, idStr), !.lru = SeqWithout(@, idStr)], idStr)

\* _removeByKey
RemoveByKey(S, field, value) ==
  IF field \in DOMAIN S.byKey
    THEN [S EXCEPT !.byKey[field] = MapDel(@, value)]
    ELSE S

\* the loop `for (const keyField of this.keyFields) this._removeByKey(...)`
\* over the key values of one record, first n key fields
RECURSIVE RemoveKeysOf(_, _, _)
RemoveKeysOf(S, data, n) ==
  IF n = 0 THEN S
  ELSE RemoveByKey(RemoveKeysOf(S, data, n - 1), keyFields[n], FieldVal(data, keyFields[n]))

\* _evictLRU
EvictLRU(S) ==
  IF Len(S.lru) = 0 THEN S
  ELSE LET lruId == Head(S.lru)
           S1 == [S EXCEPT !.lru = Tail(@)]
           S2 == RemoveById(S1, lruId)
           S3 == IF lruId \in DOMAIN S.id
                   THEN RemoveKeysOf(S2, S.id[lruId].data, Len(keyFields))
                   ELSE S2
       IN [S3 EXCEPT !.evictions = @ + 1]

\* the loop of _setItem that shares the entry with every key bucket
RECURSIVE IndexEntry(_, _, _)
IndexEntry(bk, entry, n) ==
  IF n = 0 THEN bk
  ELSE LET b == IndexEntry(bk, entry, n - 1)
           f == keyFields[n]
           bucket == IF f \in DOMAIN b THEN b[f] ELSE EmptyMap
       IN IF FieldVal(entry.data, f) = NullValue
            THEN b
            ELSE MapPut(b, f, MapPut(bucket, FieldVal(entry.data, f), entry))

\* the capacity check of _setItem
NeedsEviction(S, idStr) ==
  /\ maxSize > 0
  /\ idStr \notin DOMAIN S.id
  /\ Cardinality(DOMAIN S.id) >= maxSize

\* _setItem
SetItem(S, data, t) ==
  LET idStr == Str(data.id)
      entry == [data |-> data, expiresAt |-> ExpiryTime(t), oid |-> FreshOid(S)]
      S1 == IF NeedsEviction(S, idStr) THEN EvictLRU(S) ELSE S
      S2 == [S1 EXCEPT !.id = MapPut(@, idStr, entry),
                       !.lru = UpdateLRU(@, idStr),
                       !.byKey = IndexEntry(@, entry, Len(keyFields))]
  IN RedisSet(S2, idStr, entry)

\* rows.forEach(r => this._setItem(r))
RECURSIVE SetItems(_, _, _)
SetItems(S, rows, t) ==
  IF Len(rows) = 0 THEN S
  ELSE SetItems(SetItem(S, Head(rows), t), Tail(rows), t)

\* _removeItem
RemoveItem(S, data) ==
  RemoveKeysOf(RemoveById(S, Str(data.id)), data, Len(keyFields))

\* ------------------------------------------------------------ frames
storeVars == <<cache, lruOrder, metrics, redis>>
syncVars == <<syncing, lastSyncAt, syncCall>>
loaderVars == <<loadingPromises, fetches>>
hookVars == <<modelHooks, hookRefs>>
envVars == <<now, db, redisUp>>
lifeVars == <<ready, readyPromise, refreshTimer, autoCall, waitCall, destroyCall>>
clusterVars == <<cluster, inbox, published, peer>>
multiVars == <<multi, managed, mmCall>>

\* write a store value back to the fields it was read from
ApplyStore(S, m) ==
  /\ cache' = [id |-> S.id, byKey |-> S.byKey]
  /\ lruOrder' = S.lru
  /\ metrics' = [m EXCEPT !.evictions = S.evictions]
  /\ redis' = S.redis

\* every operation the environment starts is counted against the budget
Spend ==
  /\ budget > 0
  /\ budget' = budget - 1

\* ------------------------------------------------------------ results
\* What a promise settles with or a call returns: a record ("row"), null,
\* undefined, a rejection ("raise", with its cause) or, for a Redis GET, the
\* stored text ("entry", with its expiresAt).
NoVal == [id |-> 0, email |-> "-"]
Result(kind, val, exp, cause) == [kind |-> kind, val |-> val, exp |-> exp, cause |-> cause]
Plain(kind) == Result(kind, NoVal, 0, 0)
RowResult(data) == Result("row", data, 0, 0)
NoResult == Plain("none")
IdleCall == [pc |-> "idle", op |-> "none", id |-> 0, field |-> "-", values |-> <<>>,
             t0 |-> 0, reply |-> NoResult, fid |-> 0, expiredHit |-> FALSE,
             rows |-> <<>>, result |-> NoResult, many |-> EmptyMap]
IdleSync == [pc |-> "idle", mode |-> "none", since |-> 0, rows |-> <<>>, cause |-> 0,
             outcome |-> "none"]
\* autoLoad(): p is the sync invocation it started
IdleAuto == [pc |-> "idle", p |-> 0, result |-> "none"]
\* waitUntilReady(): seen is this.readyPromise as the call found it
IdleWait == [pc |-> "idle", seen |-> "none", result |-> "none"]
IdleDestroy == [pc |-> "idle", returned |-> 0, result |-> "none"]
\* the setInterval callback of startAutoRefresh: p is the sync invocation it
\* awaits, attempts the times at which it called sync, result how its last
\* run ended
IdleRefresh == [pc |-> "idle", p |-> 0, attempts |-> <<>>, result |-> "none"]

\* the models handed to the MultiModelCacheManager constructor, and a name
\* that is not one of them
ModelNames == {"User", "Product"}
AllNames == ModelNames \cup {"Ghost"}

\* a CacheManager the orchestrator has not created yet
IdleManaged == [load |-> "none", readyPromise |-> "none", ready |-> FALSE,
                forwarding |-> FALSE]
NoMulti == [initialized |-> FALSE, managers |-> {}, listeners |-> 0, orphans |-> {}]
IdleMulti ==
  [init |-> [pc |-> "idle", result |-> "none"],
   wait |-> [pc |-> "idle", deadline |-> 0, awaiting |-> {}, result |-> "none"],
   destroy |-> [pc |-> "idle"],
   op |-> [name |-> "none", model |-> "-", result |-> "none"],
   torn |-> FALSE]

\* the two CacheManager instances on one invalidation channel: "A" is the
\* instance whose state the variables above hold, "B" is its peer
Instances == {"A", "B"}

\* ------------------------------------------------------------ Init
\* The state after `new CacheManager(model, options)`: empty cache, no
\* hooks, no timers, no listeners.  The table, the options and the contents
\* of a shared external store are inputs.
InitCore(kf, ttl, ms, lazy, swr, rds, upd, listeners, cs, ss, bud) ==
  /\ keyFields = kf
  /\ ttlMs = ttl
  /\ maxSize = ms
  /\ lazyReload = lazy
  /\ staleWhileRevalidate = swr
  /\ redisEnabled = rds
  /\ hasUpdatedAt = upd
  /\ now = 1
  /\ db \in {MapPut(MapPut(EmptyMap, 1, [email |-> "a", updatedAt |-> 1]),
                        2, [email |-> "b", updatedAt |-> 1]),
              MapPut(EmptyMap, 1, [email |-> "a", updatedAt |-> 1])}
  /\ redis = EmptyMap
  /\ redisUp = TRUE
  /\ failures = 0
  /\ cache = [id |-> EmptyMap, byKey |-> EmptyMap]
  /\ lruOrder = <<>>
  /\ metrics = [hits |-> 0, misses |-> 0, evictions |-> 0]
  /\ syncing = FALSE
  /\ lastSyncAt = 0
  /\ syncCall = [p \in 1..ss |-> IdleSync]
  /\ loadingPromises = EmptyMap
  /\ fetches = {}
  /\ call = [c \in 1..cs |-> IdleCall]
  /\ errorListeners = listeners
  /\ errors = <<>>
  /\ modelHooks = 0
  /\ hookRefs = FALSE
  /\ cleanupTimer = FALSE
  /\ budget = bud
  /\ ready = FALSE
  /\ readyPromise = "none"
  /\ refreshTimer = FALSE
  /\ lastAutoSync = 0
  /\ refreshCall = IdleRefresh
  /\ autoCall = IdleAuto
  /\ waitCall = IdleWait
  /\ destroyCall = IdleDestroy
  /\ multi = NoMulti
  /\ managed = [n \in ModelNames |-> IdleManaged]
  /\ mmCall = IdleMulti
  /\ inbox = [i \in Instances |-> <<>>]
  /\ published = 0
  /\ emitted = <<>>
  /\ peer = [id |-> EmptyMap, byKey |-> EmptyMap, lru |-> <<>>, evictions |-> 0]

\* the model provides getAttributes() (ga), and the Redis options ask for
\* cluster sync (cs): the constructor has then run _initRedis and
\* _initClusterSync up to `await this.redisSubscriber.connect()`
InitOptions(ga, cs, spacing) ==
  /\ hasGetAttributes = ga
  /\ cluster = [i \in Instances |-> IF cs THEN "connecting" ELSE "off"]
  /\ minAutoSyncInterval = spacing

InitModes(ga, cs) == InitOptions(ga, cs, 1)

InitWith(kf, ttl, ms, lazy, swr, rds, upd, listeners, cs, ss, bud) ==
  /\ InitCore(kf, ttl, ms, lazy, swr, rds, upd, listeners, cs, ss, bud)
  /\ InitModes(TRUE, FALSE)

\* ------------------------------------------------------------ environment
\* time passes
Tick ==
  /\ now < MaxTime
  /\ now' = now + 1
  /\ UNCHANGED <<configVars, refreshVars, multiVars, lifeVars, clusterVars, emitted, db, redisUp, failures, storeVars, syncVars, loaderVars, call,
                 errorListeners, errors, hookVars, cleanupTimer, budget>>

\* the external store becomes unreachable / reachable again
RedisFlip ==
  /\ redisEnabled
  /\ IF redisUp THEN /\ failures < MaxFailures
                     /\ failures' = failures + 1
               ELSE failures' = failures
  /\ redisUp' = ~redisUp
  /\ UNCHANGED <<configVars, refreshVars, multiVars, lifeVars, clusterVars, emitted, now, db, storeVars, syncVars, loaderVars, call,
                 errorListeners, errors, hookVars, cleanupTimer, budget>>

\* cache.on("error", listener)
OnError ==
  /\ errorListeners = 0
  /\ errorListeners' = 1
  /\ UNCHANGED <<configVars, refreshVars, multiVars, lifeVars, clusterVars, emitted, envVars, failures, storeVars, syncVars, loaderVars, call,
                 errors, hookVars, cleanupTimer, budget>>

\* ------------------------------------------------------------ hook bridge
\* attachHooks
AttachHooks ==
  /\ Spend
  /\ modelHooks' = modelHooks + 1
  /\ hookRefs' = TRUE
  /\ UNCHANGED <<configVars, refreshVars, multiVars, lifeVars, clusterVars, emitted, envVars, failures, storeVars, syncVars, loaderVars, call,
                 errorListeners, errors, cleanupTimer>>

\* detachHooks
DetachHooks ==
  /\ Spend
  /\ IF hookRefs
       THEN /\ modelHooks' = modelHooks - 1
            /\ hookRefs' = FALSE
       ELSE UNCHANGED hookVars
  /\ UNCHANGED <<configVars, refreshVars, multiVars, lifeVars, clusterVars, emitted, envVars, failures, storeVars, syncVars, loaderVars, call,
                 errorListeners, errors, cleanupTimer>>

\* the `created` / `updated` handlers, once per registered triple
RECURSIVE HookSet(_, _, _, _)
HookSet(S, data, t, n) ==
  IF n = 0 THEN S ELSE HookSet(SetItem(S, data, t), data, t, n - 1)

\* the `destroyed` handler, once per registered triple
RECURSIVE HookRemove(_, _, _)
HookRemove(S, data, n) ==
  IF n = 0 THEN S ELSE HookRemove(RemoveItem(S, data), data, n - 1)

\* Model.create(...) followed by the afterCreate hook
DbCreate(i, e) ==
  /\ Spend
  /\ i \notin DOMAIN db
  /\ db' = MapPut(db, i, [email |-> e, updatedAt |-> now])
  /\ ApplyStore(HookSet(Store, Row(i, e), now, modelHooks), metrics)
  /\ UNCHANGED <<configVars, refreshVars, multiVars, lifeVars, clusterVars, emitted, now, redisUp, failures, syncVars, loaderVars, call,
                 errorListeners, errors, hookVars, cleanupTimer>>

\* instance.update(...) followed by the afterUpdate hook
DbUpdate(i, e) ==
  /\ Spend
  /\ i \in DOMAIN db
  /\ db[i].email # e
  /\ db' = MapPut(db, i, [email |-> e, updatedAt |-> now])
  /\ ApplyStore(HookSet(Store, Row(i, e), now, modelHooks), metrics)
  /\ UNCHANGED <<configVars, refreshVars, multiVars, lifeVars, clusterVars, emitted, now, redisUp, failures, syncVars, loaderVars, call,
                 errorListeners, errors, hookVars, cleanupTimer>>

\* instance.destroy() followed by the afterDestroy hook
DbDestroy(i) ==
  /\ Spend
  /\ i \in DOMAIN db
  /\ db' = MapDel(db, i)
  /\ ApplyStore(HookRemove(Store, Row(i, db[i].email), modelHooks), metrics)
  /\ UNCHANGED <<configVars, refreshVars, multiVars, lifeVars, clusterVars, emitted, now, redisUp, failures, syncVars, loaderVars, call,
                 errorListeners, errors, hookVars, cleanupTimer>>

\* ------------------------------------------------------------ backing store
\* Model.findByPk(id)
FindByPk(i) == IF i \in DOMAIN db THEN RowResult(Row(i, db[i].email)) ELSE Plain("null")

\* Model.findOne({ where: { [field]: value } }): the first matching row
Matches(i, field, value) == i \in DOMAIN db /\ FieldVal(Row(i, db[i].email), field) = value
FindOne(field, value) ==
  IF \E i \in Ids : Matches(i, field, value)
    THEN LET i == CHOOSE j \in Ids : Matches(j, field, value) /\
                                     \A k \in Ids : Matches(k, field, value) => j <= k
         IN RowResult(Row(i, db[i].email))
    ELSE Plain("null")

\* rows of Model.findAll(...) in primary-key order, restricted to ids in sel
RECURSIVE RowsFrom(_, _)
RowsFrom(i, sel) ==
  IF i > MaxId THEN <<>>
  ELSE (IF i \in sel THEN <<Row(i, db[i].email)>> ELSE <<>>) \o RowsFrom(i + 1, sel)

\* ------------------------------------------------------------ lazy loader
IdKey(i) == "id:" \o Str(i)
FieldKey(field, value) == "key:" \o field \o ":" \o value

LoadPendingNever(key) == FALSE

\* `this.loadingPromises[key]` is set
LoadPending(key) == key \in DOMAIN loadingPromises

FreshFid ==
  CHOOSE n \in 1..(Cardinality(fetches) + 1) :
    /\ \A f \in fetches : f.fid # n
    /\ \A m \in 1..(Cardinality(fetches) + 1) : m < n => \E f \in fetches : f.fid = m

\* _lazyLoadById / _lazyLoadByKey up to the return of the promise: fid is the
\* promise handed to the caller, 0 when the function returns undefined.
LazyLoad(key, kind, i, field, value) ==
  IF ~lazyReload
    THEN [fid |-> 0, fetches |-> fetches, promises |-> loadingPromises]
  ELSE IF LoadPending(key)
    THEN [fid |-> loadingPromises[key], fetches |-> fetches, promises |-> loadingPromises]
  ELSE [fid |-> FreshFid,
        fetches |-> fetches \cup {[fid |-> FreshFid, key |-> key, kind |-> kind, id |-> i,
                                   field |-> field, value |-> value, st |-> "issued",
                                   res |-> NoResult]},
        promises |-> MapPut(loadingPromises, key, FreshFid)]

FreeCall(c) == call[c].pc \in {"idle", "done"}
CanCall(c) == FreeCall(c) /\ \A d \in Callers : d < c => ~FreeCall(d)

\* a finished invocation: its arguments and what it returned
Done(base, result) ==
  [IdleCall EXCEPT !.pc = "done", !.op = base.op, !.id = base.id, !.field = base.field,
                   !.values = base.values, !.expiredHit = base.expiredHit,
                   !.result = result]

\* the expiry test of the read path, against the Date.now() taken on entry
IsExpiredAt(entry, t) == ttlMs # 0 /\ entry.expiresAt < t

AwaitsRefreshAlways == TRUE
AwaitsRefreshNever == FALSE

\* the branch taken on an expired hit: await the reload, or serve stale data
\* and let the reload run in the background
AwaitsRefresh == ~staleWhileRevalidate

\* the part of getById / getByKey after the entry was looked up: miss
\* (found = FALSE) or hit, with the TTL branches.  S is the store at that
\* point, L the effect of the lazy load the branch starts.
ReadFinish(c, base, found, entry, lruId, S, L) ==
  IF ~found
    THEN /\ ApplyStore(S, [metrics EXCEPT !.misses = @ + 1])
         /\ fetches' = L.fetches
         /\ loadingPromises' = L.promises
         /\ call' = [call EXCEPT ![c] =
               IF L.fid = 0
                 THEN Done(base, Plain("undefined"))
                 ELSE [base EXCEPT !.pc = "awaitLoad", !.fid = L.fid]]
  ELSE IF ~IsExpiredAt(entry, base.t0)
    THEN /\ ApplyStore([S EXCEPT !.lru = UpdateLRU(@, lruId)],
                       [metrics EXCEPT !.hits = @ + 1])
         /\ UNCHANGED loaderVars
         /\ call' = [call EXCEPT ![c] =
               Done(base, RowResult(entry.data))]
  ELSE /\ ApplyStore([S EXCEPT !.lru = UpdateLRU(@, lruId)],
                     [metrics EXCEPT !.hits = @ + 1])
       /\ fetches' = L.fetches
       /\ loadingPromises' = L.promises
       /\ call' = [call EXCEPT ![c] =
             IF ~AwaitsRefresh
               THEN Done([base EXCEPT !.expiredHit = TRUE], RowResult(entry.data))
             ELSE IF L.fid = 0
               THEN Done([base EXCEPT !.expiredHit = TRUE], Plain("undefined"))
               ELSE [base EXCEPT !.pc = "awaitLoad", !.expiredHit = TRUE, !.fid = L.fid]]

NoEntry == [data |-> NoVal, expiresAt |-> 0, oid |-> 0]



\* getById up to its first suspension point
GetById(c, i) ==
  /\ Spend
  /\ CanCall(c)
  /\ LET idStr == Str(i)
         base == [IdleCall EXCEPT !.op = "getById", !.id = i, !.t0 = now]
         found == idStr \in DOMAIN cache.id
     IN IF ~found /\ redisEnabled
          THEN /\ call' = [call EXCEPT ![c] = [base EXCEPT !.pc = "redisGet", !.reply =
                    IF ~redisUp THEN Plain("raise")
                    ELSE IF idStr \in DOMAIN redis
                      THEN Result("entry", redis[idStr].data, redis[idStr].expiresAt, 0)
                      ELSE Plain("null")]]
               /\ UNCHANGED <<storeVars, loaderVars>>
          ELSE ReadFinish(c, base, found, IF found THEN cache.id[idStr] ELSE NoEntry, idStr,
                          Store, LazyLoad(IdKey(i), "pk", i, "-", "-"))
  /\ UNCHANGED <<configVars, refreshVars, multiVars, lifeVars, clusterVars, emitted, envVars, failures, syncVars, errorListeners, errors,
                 hookVars, cleanupTimer>>

GetByIdRestoreForgets(c) ==
  /\ call[c].pc = "redisGet"
  /\ LET i == call[c].id
         idStr == Str(i)
         hit == call[c].reply.kind = "entry"
         entry == [data |-> call[c].reply.val, expiresAt |-> call[c].reply.exp,
                   oid |-> FreshOid(Store)]
     IN ReadFinish(c, call[c], hit, entry, idStr, [Store EXCEPT !.lru = SeqWithout(@, idStr)],
                   LazyLoad(IdKey(i), "pk", i, "-", "-"))
  /\ UNCHANGED <<configVars, refreshVars, multiVars, lifeVars, clusterVars, emitted, envVars, failures, syncVars, errorListeners, errors,
                 hookVars, cleanupTimer, budget>>

\* getById after `await this.redisClient.get(key)`
GetByIdRestore(c) ==
  /\ call[c].pc = "redisGet"
  /\ LET i == call[c].id
         idStr == Str(i)
         hit == call[c].reply.kind = "entry"
         entry == [data |-> call[c].reply.val, expiresAt |-> call[c].reply.exp,
                   oid |-> FreshOid(Store)]
         S == IF hit THEN [Store EXCEPT !.id = MapPut(@, idStr, entry),
                                        !.lru = UpdateLRU(@, idStr)]
                     ELSE Store
     IN ReadFinish(c, call[c], hit, entry, idStr, S, LazyLoad(IdKey(i), "pk", i, "-", "-"))
  /\ UNCHANGED <<configVars, refreshVars, multiVars, lifeVars, clusterVars, emitted, envVars, failures, syncVars, errorListeners, errors,
                 hookVars, cleanupTimer, budget>>

\* getByKey up to its first suspension point
GetByKey(c, field, value) ==
  /\ Spend
  /\ CanCall(c)
  /\ LET base == [IdleCall EXCEPT !.op = "getByKey", !.field = field,
                                  !.values = <<value>>, !.t0 = now]
         found == field \in DOMAIN cache.byKey /\ value \in DOMAIN cache.byKey[field]
         entry == IF found THEN cache.byKey[field][value] ELSE NoEntry
     IN ReadFinish(c, base, found, entry, Str(entry.data.id), Store,
                   LazyLoad(FieldKey(field, value), "one", 0, field, value))
  /\ UNCHANGED <<configVars, refreshVars, multiVars, lifeVars, clusterVars, emitted, envVars, failures, syncVars, errorListeners, errors,
                 hookVars, cleanupTimer>>

\* the backing store answers a findByPk / findOne of the lazy loader
FetchAnswer(fid) ==
  \E f \in fetches :
    /\ f.fid = fid
    /\ f.st = "issued"
    /\ \/ /\ fetches' = (fetches \ {f}) \cup
                 {[f EXCEPT !.st = "answered",
                            !.res = IF f.kind = "pk" THEN FindByPk(f.id)
                                                     ELSE FindOne(f.field, f.value)]}
          /\ UNCHANGED failures
       \/ /\ failures < MaxFailures
          /\ failures' = failures + 1
          /\ fetches' = (fetches \ {f}) \cup
                 {[f EXCEPT !.st = "answered", !.res = Result("raise", NoVal, 0, failures + 1)]}
    /\ UNCHANGED <<configVars, refreshVars, multiVars, lifeVars, clusterVars, emitted, envVars, storeVars, syncVars, loadingPromises, call,
                   errorListeners, errors, hookVars, cleanupTimer, budget>>

\* emit("error", cause): EventEmitter throws the cause when nobody listens
EmitErrorThrows == errorListeners = 0

\* what the promise chain of a lazy load settles with: the .then result, or
\* the .catch result, or the rejection thrown by emit("error") inside .catch
LoadOutcome(res) ==
  IF res.kind = "raise"
    THEN (IF EmitErrorThrows THEN res ELSE Plain("null"))
    ELSE res

\* the .then / .catch / .finally callbacks of a lazy load, and the callers
\* awaiting the promise
FetchSettle(fid) ==
  \E f \in fetches :
    /\ f.fid = fid
    /\ f.st = "answered"
    /\ ApplyStore(IF f.res.kind = "row" THEN SetItem(Store, f.res.val, now) ELSE Store, metrics)
    /\ errors' = IF f.res.kind = "raise" THEN Append(errors, f.res.cause) ELSE errors
    /\ loadingPromises' = MapDel(loadingPromises, f.key)
    /\ fetches' = fetches \ {f}
    /\ call' = [c \in Callers |->
                  IF call[c].pc = "awaitLoad" /\ call[c].fid = fid
                    THEN Done(call[c], LoadOutcome(f.res))
                    ELSE call[c]]
    /\ UNCHANGED <<configVars, refreshVars, multiVars, lifeVars, clusterVars, emitted, envVars, failures, syncVars, errorListeners, hookVars,
                   cleanupTimer, budget>>

\* ------------------------------------------------------------ bulk reads
\* entries of the Entry Store in Object.values order (integer-like keys
\* ascend), from identifier i on, that satisfy keep
RECURSIVE EntriesFrom(_, _)
EntriesFrom(i, S) ==
  IF i > MaxId THEN <<>>
  ELSE (IF Str(i) \in DOMAIN S.id THEN <<S.id[Str(i)]>> ELSE <<>>) \o EntriesFrom(i + 1, S)

\* the filter of getAll and of getManyByKey's first loop
IsLive(entry, t) == ttlMs = 0 \/ entry.expiresAt > t

\* getAll
GetAllRows(S, t) ==
  LET live == SelectSeq(EntriesFrom(1, S), LAMBDA e : IsLive(e, t))
  IN [k \in 1..Len(live) |-> live[k].data]

GetAll(c) ==
  /\ Spend
  /\ CanCall(c)
  /\ call' = [call EXCEPT ![c] = [Done([IdleCall EXCEPT !.op = "getAll"], Plain("rows"))
                                     EXCEPT !.rows = GetAllRows(Store, now)]]
  /\ UNCHANGED <<configVars, refreshVars, multiVars, lifeVars, clusterVars, emitted, envVars, failures, storeVars, syncVars, loaderVars,
                 errorListeners, errors, hookVars, cleanupTimer>>

SeqRange(s) == {s[k] : k \in 1..Len(s)}

\* the byKey lookup `this.cache.byKey?.[field]?.[String(v)]`
HasKey(S, field, value) == field \in DOMAIN S.byKey /\ value \in DOMAIN S.byKey[field]

\* getManyByKey up to `await this.model.findAll(...)`
GetManyByKey(c, field, values) ==
  /\ Spend
  /\ CanCall(c)
  /\ LET cached == {v \in SeqRange(values) :
                      HasKey(Store, field, v) /\ IsLive(cache.byKey[field][v], now)}
         result == [v \in cached |-> RowResult(cache.byKey[field][v].data)]
         base == [IdleCall EXCEPT !.op = "getManyByKey", !.field = field, !.values = values,
                                  !.t0 = now, !.many = result]
     IN call' = [call EXCEPT ![c] =
           IF cached = SeqRange(values)
             THEN [Done(base, Plain("map")) EXCEPT !.many = result]
             ELSE [base EXCEPT !.pc = "findAll"]]
  /\ UNCHANGED <<configVars, refreshVars, multiVars, lifeVars, clusterVars, emitted, envVars, failures, storeVars, syncVars, loaderVars,
                 errorListeners, errors, hookVars, cleanupTimer>>

\* the backing store answers getManyByKey's findAll({ where: { [field]: { in } } })
ManyAnswer(c) ==
  /\ call[c].pc = "findAll"
  /\ LET missing == SeqRange(call[c].values) \ DOMAIN call[c].many
         sel == {i \in DOMAIN db : FieldVal(Row(i, db[i].email), call[c].field) \in missing}
     IN \/ /\ call' = [call EXCEPT ![c].pc = "manyAnswered", ![c].rows = RowsFrom(1, sel),
                                   ![c].reply = Plain("rows")]
           /\ UNCHANGED failures
        \/ /\ failures < MaxFailures
           /\ failures' = failures + 1
           /\ call' = [call EXCEPT ![c].pc = "manyAnswered",
                                   ![c].reply = Result("raise", NoVal, 0, failures + 1)]
  /\ UNCHANGED <<configVars, refreshVars, multiVars, lifeVars, clusterVars, emitted, envVars, storeVars, syncVars, loaderVars,
                 errorListeners, errors, hookVars, cleanupTimer, budget>>

\* getManyByKey after the await: a rejected findAll propagates to the caller
ManyResume(c) ==
  /\ call[c].pc = "manyAnswered"
  /\ IF call[c].reply.kind = "raise"
       THEN /\ call' = [call EXCEPT ![c] = Done(call[c], call[c].reply)]
            /\ UNCHANGED storeVars
       ELSE LET S == SetItems(Store, call[c].rows, now)
                missing == SeqRange(call[c].values) \ DOMAIN call[c].many
                filled == [v \in SeqRange(call[c].values) |->
                             IF v \in missing
                               THEN (IF HasKey(S, call[c].field, v)
                                       THEN RowResult(S.byKey[call[c].field][v].data)
                                       ELSE Plain("null"))
                               ELSE call[c].many[v]]
            IN /\ ApplyStore(S, metrics)
               /\ call' = [call EXCEPT ![c] = [Done(call[c], Plain("map")) EXCEPT !.many = filled]]
  /\ UNCHANGED <<configVars, refreshVars, multiVars, lifeVars, clusterVars, emitted, envVars, failures, syncVars, loaderVars,
                 errorListeners, errors, hookVars, cleanupTimer, budget>>

\* ------------------------------------------------------------ maintenance
\* the unscoped branch of clear(): memory is reset at once; the SCAN + DEL of
\* the external store empties it when it is reachable
ClearedStoreIndexOnly(S) ==
  [S EXCEPT !.byKey = EmptyMap, !.evictions = 0]

ClearedStore(S) ==
  [S EXCEPT !.id = EmptyMap, !.byKey = EmptyMap, !.lru = <<>>, !.evictions = 0]

PurgeRedis(S) == IF redisEnabled /\ redisUp THEN [S EXCEPT !.redis = EmptyMap] ELSE S

ZeroMetrics == [hits |-> 0, misses |-> 0, evictions |-> 0]

ClearAll(field) ==
  /\ Spend
  /\ ApplyStore(PurgeRedis(ClearedStore(Store)), ZeroMetrics)
  /\ UNCHANGED <<configVars, refreshVars, multiVars, lifeVars, clusterVars, emitted, envVars, failures, syncVars,
                 loaderVars, call, errorListeners, errors, hookVars, cleanupTimer>>

\* clear(field?) ; field "*" stands for the call without argument
Clear(field) ==
  /\ Spend
  /\ IF field = "*"
       THEN ApplyStore(PurgeRedis(ClearedStore(Store)), ZeroMetrics)
       ELSE ApplyStore([Store EXCEPT !.byKey = MapDel(@, field)], metrics)
  /\ UNCHANGED <<configVars, refreshVars, multiVars, lifeVars, clusterVars, emitted, envVars, failures, syncVars, loaderVars, call,
                 errorListeners, errors, hookVars, cleanupTimer>>

\* ------------------------------------------------------------ cluster sync
\* a notification handed to this.emit(...)
Event(inst, name, field, value) ==
  [inst |-> inst, name |-> name, field |-> field, value |-> value]

\* the JSON text published on the channel
Message(field, value, source) == [field |-> field, value |-> value, source |-> source]

\* the store of the peer instance, which shares the external store
PeerStore == [id |-> peer.id, byKey |-> peer.byKey, lru |-> peer.lru,
              evictions |-> peer.evictions, redis |-> redis]

ApplyPeer(S) ==
  /\ peer' = [id |-> S.id, byKey |-> S.byKey, lru |-> S.lru, evictions |-> S.evictions]
  /\ redis' = S.redis

\* the subscriber of an instance receives what is published
Subscribed(inst) == cluster[inst] = "enabled"

\* the "itemInvalidated" listener registered by _initClusterSync: publish
\* the invalidation; a rejected publish is only logged
Publish(inst, field, value) ==
  IF cluster[inst] = "enabled" /\ redisUp
    THEN /\ published' = published + 1
         /\ inbox' = [i \in Instances |->
                        IF Subscribed(i)
                          THEN Append(inbox[i], Message(field, value, inst))
                          ELSE inbox[i]]
    ELSE UNCHANGED <<published, inbox>>

\* _initClusterSync after `await this.redisSubscriber.connect()`
ClusterConnected(inst) ==
  /\ cluster[inst] = "connecting"
  /\ cluster' = [cluster EXCEPT ![inst] = IF redisUp THEN "subscribing" ELSE "failed"]
  /\ UNCHANGED <<configVars, refreshVars, multiVars, lifeVars, inbox, published, peer, emitted, envVars, failures,
                 storeVars, syncVars, loaderVars, call, errorListeners, errors, hookVars,
                 cleanupTimer, budget>>

\* _initClusterSync after `await this.redisSubscriber.subscribe(...)`: the
\* publishing listener is registered and clusterSyncEnabled is set
ClusterSubscribed(inst) ==
  /\ cluster[inst] = "subscribing"
  /\ cluster' = [cluster EXCEPT ![inst] = IF redisUp THEN "enabled" ELSE "failed"]
  /\ UNCHANGED <<configVars, refreshVars, multiVars, lifeVars, inbox, published, peer, emitted, envVars, failures,
                 storeVars, syncVars, loaderVars, call, errorListeners, errors, hookVars,
                 cleanupTimer, budget>>

IsOwnMessageNever(self, msg) == FALSE

\* `source === this._instanceId`
IsOwnMessage(self, msg) == msg.source = self

\* the subscriber callback of _initClusterSync
OnInvalidationMessage(S, self, msg) ==
  IF IsOwnMessage(self, msg) THEN S
  ELSE IF HasKey(S, msg.field, msg.value)
    THEN LET entry == S.byKey[msg.field][msg.value]
         IN RemoveKeysOf(RemoveById(S, Str(entry.data.id)), entry.data, Len(keyFields))
    ELSE S

\* the channel hands the oldest pending message to the subscriber callback
Deliver(inst) ==
  /\ Len(inbox[inst]) > 0
  /\ inbox' = [inbox EXCEPT ![inst] = Tail(@)]
  /\ IF inst = "A"
       THEN /\ ApplyStore(OnInvalidationMessage(Store, inst, Head(inbox[inst])), metrics)
            /\ UNCHANGED peer
       ELSE /\ ApplyPeer(OnInvalidationMessage(PeerStore, inst, Head(inbox[inst])))
            /\ UNCHANGED <<cache, lruOrder, metrics>>
  /\ UNCHANGED <<configVars, refreshVars, multiVars, lifeVars, cluster, published, emitted, envVars, failures,
                 syncVars, loaderVars, call, errorListeners, errors, hookVars,
                 cleanupTimer, budget>>

\* the peer stores records (its hooks, its sync, its loadFromJSON)
PeerSetItems(arr) ==
  /\ Spend
  /\ ApplyPeer(SetItems(PeerStore, arr, now))
  /\ UNCHANGED <<configVars, refreshVars, multiVars, lifeVars, cluster, inbox, published, emitted, envVars,
                 failures, cache, lruOrder, metrics, syncVars, loaderVars, call,
                 errorListeners, errors, hookVars, cleanupTimer>>

\* invalidate(field, value) called on the peer
PeerInvalidate(field, value) ==
  /\ Spend
  /\ ApplyPeer(RemoveByKey(PeerStore, field, value))
  /\ emitted' = Append(emitted, Event("B", "itemInvalidated", field, value))
  /\ Publish("B", field, value)
  /\ UNCHANGED <<configVars, refreshVars, multiVars, lifeVars, cluster, envVars, failures, cache, lruOrder,
                 metrics, syncVars, loaderVars, call, errorListeners, errors, hookVars,
                 cleanupTimer>>

InvalidateRecord(field, value) ==
  /\ Spend
  /\ ApplyStore(OnInvalidationMessage(Store, "A", Message(field, value, "B")), metrics)
  /\ emitted' = Append(emitted, Event("A", "itemInvalidated", field, value))
  /\ Publish("A", field, value)
  /\ UNCHANGED <<configVars, refreshVars, multiVars, lifeVars, cluster, peer, envVars, failures, syncVars,
                 loaderVars, call, errorListeners, errors, hookVars, cleanupTimer>>

\* invalidate(field, value)
Invalidate(field, value) ==
  /\ Spend
  /\ ApplyStore(RemoveByKey(Store, field, value), metrics)
  /\ emitted' = Append(emitted, Event("A", "itemInvalidated", field, value))
  /\ Publish("A", field, value)
  /\ UNCHANGED <<configVars, refreshVars, multiVars, lifeVars, cluster, peer, envVars, failures, syncVars,
                 loaderVars, call, errorListeners, errors, hookVars, cleanupTimer>>

\* startCleanup
StartCleanup ==
  /\ ~cleanupTimer
  /\ cleanupTimer' = (ttlMs # 0)
  /\ UNCHANGED <<configVars, refreshVars, multiVars, lifeVars, clusterVars, emitted, envVars, failures, storeVars, syncVars, loaderVars, call,
                 errorListeners, errors, hookVars, budget>>

\* first loop of _cleanupExpired, over the identifiers from i on
RECURSIVE CleanupIds(_, _, _)
CleanupIds(S, i, t) ==
  IF i > MaxId THEN S
  ELSE CleanupIds(IF Str(i) \in DOMAIN S.id /\ S.id[Str(i)].expiresAt < t
                    THEN RemoveById(S, Str(i)) ELSE S,
                  i + 1, t)

CleanupKeysNone(S, t) == S

\* second loop of _cleanupExpired: every bucket entry that has expired
CleanupKeys(S, t) ==
  [S EXCEPT !.byKey = [f \in DOMAIN S.byKey |->
      [v \in {w \in DOMAIN S.byKey[f] : ~(S.byKey[f][w].expiresAt < t)} |-> S.byKey[f][v]]]]

\* _cleanupExpired, run by the cleanup timer
CleanupExpired ==
  /\ cleanupTimer
  /\ IF ttlMs = 0 \/ syncing
       THEN UNCHANGED storeVars
       ELSE ApplyStore(CleanupKeys(CleanupIds(Store, 1, now), now), metrics)
  /\ UNCHANGED <<configVars, refreshVars, multiVars, lifeVars, clusterVars, emitted, envVars, failures, syncVars, loaderVars, call,
                 errorListeners, errors, hookVars, cleanupTimer, budget>>

\* one iteration of loadFromJSON's hasMeta branch
LoadMetaEntry(S, item, t) ==
  IF ttlMs # 0 /\ item.expiresAt < t THEN S
  ELSE LET entry == [data |-> item.data, expiresAt |-> item.expiresAt, oid |-> FreshOid(S)]
       IN [S EXCEPT !.id = MapPut(@, Str(item.data.id), entry),
                    !.byKey = IndexEntry(@, entry, Len(keyFields))]

RECURSIVE LoadMeta(_, _, _)
LoadMeta(S, arr, t) ==
  IF Len(arr) = 0 THEN S ELSE LoadMeta(LoadMetaEntry(S, Head(arr), t), Tail(arr), t)

\* arrays handed to loadFromJSON
MetaItems == {[data |-> Row(i, e), expiresAt |-> x] :
                i \in Ids, e \in {"a"}, x \in {1, MaxTime + 1}}
MetaArrays == {<<m>> : m \in MetaItems} \cup
              {<<m1, m2>> : m1 \in {m \in MetaItems : m.data.id = 1},
                            m2 \in {m \in MetaItems : m.data.id = 2}}
PlainArrays == {<<Row(1, "a")>>, <<Row(1, "b"), Row(2, "b")>>}

\* loadFromJSON(arr, hasMeta)
LoadFromJSON(arr, hasMeta) ==
  /\ Spend
  /\ ApplyStore(IF hasMeta THEN LoadMeta(Store, arr, now) ELSE SetItems(Store, arr, now),
                metrics)
  /\ UNCHANGED <<configVars, refreshVars, multiVars, lifeVars, clusterVars, emitted, envVars, failures, syncVars, loaderVars, call,
                 errorListeners, errors, hookVars, cleanupTimer>>

\* _deepClone of a plain record: a new object, rebuilt property by property;
\* the property values of a row are primitives and are returned as they are
DeepClone(obj) == [k \in DOMAIN obj |-> obj[k]]

ToJSONNoExpiry(S, t, includeMeta) ==
  LET es == EntriesFrom(1, S)
  IN [k \in 1..Len(es) |-> [data |-> DeepClone(es[k].data), expiresAt |-> 0]]

\* toJSON(includeMeta)
ToJSON(S, t, includeMeta) ==
  IF includeMeta
    THEN LET es == EntriesFrom(1, S)
         IN [k \in 1..Len(es) |-> [data |-> DeepClone(es[k].data),
                                    expiresAt |-> es[k].expiresAt]]
    ELSE LET rows == GetAllRows(S, t)
         IN [k \in 1..Len(rows) |-> DeepClone(rows[k])]

\* the store of a newly constructed instance
NewStore == [id |-> EmptyMap, byKey |-> [f \in {} |-> EmptyMap], lru |-> <<>>,
             evictions |-> 0, redis |-> redis]

\* a new instance with the same configuration imports the snapshot of this
\* one: `fresh.loadFromJSON(this.toJSON(true), true)`
PeerImport ==
  /\ Spend
  /\ ApplyPeer(LoadMeta(NewStore, ToJSON(Store, now, TRUE), now))
  /\ UNCHANGED <<configVars, refreshVars, multiVars, lifeVars, cluster, inbox, published, emitted, now, db, redisUp,
                 failures, cache, lruOrder, metrics, syncVars, loaderVars, call,
                 errorListeners, errors, hookVars, cleanupTimer>>

\* ------------------------------------------------------------ sync engine
\* the mode sync(incremental) runs in
SeesUpdatedAt == IF hasGetAttributes THEN hasUpdatedAt ELSE TRUE

SyncMode(incremental) ==
  IF incremental /\ lastSyncAt # 0 /\ SeesUpdatedAt THEN "inc" ELSE "full"

SyncRejectedNever == FALSE

\* the guard at the top of sync()
SyncRejected == syncing

\* sync(incremental) up to `await this.model.findAll(...)`
SyncBegin(p, incremental) ==
  /\ syncCall[p].pc = "idle"
  /\ IF SyncRejected
       THEN /\ syncCall' = [syncCall EXCEPT ![p] = [IdleSync EXCEPT !.outcome = "skipped"]]
            /\ UNCHANGED syncing
       ELSE /\ syncing' = TRUE
            /\ syncCall' = [syncCall EXCEPT ![p] =
                  [IdleSync EXCEPT !.pc = "fetching", !.mode = SyncMode(incremental),
                                   !.since = lastSyncAt]]

\* the promise of this sync invocation is the one autoLoad chained on
AwaitedByAutoLoad(p) == autoCall.pc = "awaiting" /\ autoCall.p = p

\* sync(incremental) called by the application
SyncStart(p, incremental) ==
  /\ Spend
  /\ ~AwaitedByAutoLoad(p)
  /\ SyncBegin(p, incremental)
  /\ UNCHANGED <<configVars, refreshVars, multiVars, lifeVars, clusterVars, emitted, envVars, failures, storeVars, lastSyncAt, loaderVars, call,
                 errorListeners, errors, hookVars, cleanupTimer>>

\* the backing store answers the findAll of a sync
SyncAnswer(p) ==
  /\ syncCall[p].pc = "fetching"
  /\ \/ /\ syncCall' = [syncCall EXCEPT ![p].pc = "answered", ![p].rows =
              IF syncCall[p].mode = "inc"
                THEN RowsFrom(1, {i \in DOMAIN db : /\ hasUpdatedAt
                                                      /\ db[i].updatedAt > syncCall[p].since})
                ELSE RowsFrom(1, DOMAIN db)]
        /\ UNCHANGED failures
     \/ /\ failures < MaxFailures
        /\ failures' = failures + 1
        /\ syncCall' = [syncCall EXCEPT ![p].pc = "failed", ![p].cause = failures + 1]
  /\ UNCHANGED <<configVars, refreshVars, multiVars, lifeVars, clusterVars, emitted, envVars, storeVars, syncing, lastSyncAt, loaderVars, call,
                 errorListeners, errors, hookVars, cleanupTimer, budget>>

SyncFailClears(p) ==
  /\ syncCall[p].pc = "failed"
  /\ errors' = Append(errors, syncCall[p].cause)
  /\ syncing' = FALSE
  /\ syncCall' = [syncCall EXCEPT ![p].pc = "idle", ![p].outcome =
        IF errorListeners = 0 THEN "raise" ELSE "error"]
  /\ ApplyStore([Store EXCEPT !.id = EmptyMap, !.byKey = EmptyMap, !.lru = <<>>], metrics)
  /\ UNCHANGED <<configVars, refreshVars, multiVars, lifeVars, clusterVars, emitted, envVars, failures, lastSyncAt, loaderVars, call,
                 errorListeners, hookVars, cleanupTimer, budget>>

\* the catch and finally blocks of sync() after a rejected findAll
SyncFail(p) ==
  /\ syncCall[p].pc = "failed"
  /\ errors' = Append(errors, syncCall[p].cause)
  /\ syncing' = FALSE
  /\ syncCall' = [syncCall EXCEPT ![p].pc = "idle", ![p].outcome =
        IF EmitErrorThrows THEN "raise" ELSE "error"]
  /\ UNCHANGED <<configVars, refreshVars, multiVars, lifeVars, clusterVars, emitted, envVars, failures, storeVars, lastSyncAt, loaderVars, call,
                 errorListeners, hookVars, cleanupTimer, budget>>

\* the end of the try block: lastSyncAt, "synced", and the finally block
SyncDone(p, S, m) ==
  /\ ApplyStore(S, m)
  /\ lastSyncAt' = now
  /\ syncing' = FALSE
  /\ syncCall' = [syncCall EXCEPT ![p].pc = "idle", ![p].outcome = "ok"]

SyncResumeReplaces(p) ==
  /\ syncCall[p].pc = "answered"
  /\ IF syncCall[p].mode = "inc"
       THEN SyncDone(p, SetItems(ClearedStore(Store), syncCall[p].rows, now), metrics)
       ELSE /\ ApplyStore(ClearedStore(Store), ZeroMetrics)
            /\ syncCall' = [syncCall EXCEPT ![p].pc = "clearing"]
            /\ UNCHANGED <<syncing, lastSyncAt>>
  /\ UNCHANGED <<configVars, refreshVars, multiVars, lifeVars, clusterVars, emitted, envVars, failures, loaderVars, call,
                 errorListeners, errors, hookVars, cleanupTimer, budget>>

\* sync() after a fulfilled findAll: the incremental merge, or the full
\* branch up to `await this.clear()`
SyncResume(p) ==
  /\ syncCall[p].pc = "answered"
  /\ IF syncCall[p].mode = "inc"
       THEN SyncDone(p, SetItems(Store, syncCall[p].rows, now), metrics)
       ELSE /\ ApplyStore(ClearedStore(Store), ZeroMetrics)
            /\ syncCall' = [syncCall EXCEPT ![p].pc = "clearing"]
            /\ UNCHANGED <<syncing, lastSyncAt>>
  /\ UNCHANGED <<configVars, refreshVars, multiVars, lifeVars, clusterVars, emitted, envVars, failures, loaderVars, call,
                 errorListeners, errors, hookVars, cleanupTimer, budget>>

\* the pipelined batch write of a full sync
RECURSIVE PipelineSet(_, _, _)
PipelineSet(S, rows, t) ==
  IF Len(rows) = 0 THEN S
  ELSE PipelineSet(RedisSet(S, Str(Head(rows).id),
                            [data |-> Head(rows), expiresAt |-> ExpiryTime(t), oid |-> 0]),
                   Tail(rows), t)

\* full sync after `await this.clear()`: the external store was purged; then
\* either the batch write is sent and awaited, or the rows are stored
SyncAfterClear(p) ==
  /\ syncCall[p].pc = "clearing"
  /\ IF redisEnabled /\ Len(syncCall[p].rows) > 0
       THEN /\ ApplyStore(PipelineSet(PurgeRedis(Store), syncCall[p].rows, now), metrics)
            /\ syncCall' = [syncCall EXCEPT ![p].pc = "piping"]
            /\ UNCHANGED <<syncing, lastSyncAt>>
       ELSE SyncDone(p, SetItems(PurgeRedis(Store), syncCall[p].rows, now), metrics)
  /\ UNCHANGED <<configVars, refreshVars, multiVars, lifeVars, clusterVars, emitted, envVars, failures, loaderVars, call,
                 errorListeners, errors, hookVars, cleanupTimer, budget>>

\* full sync after `await pipeline.exec()`
SyncAfterPipeline(p) ==
  /\ syncCall[p].pc = "piping"
  /\ SyncDone(p, SetItems(Store, syncCall[p].rows, now), metrics)
  /\ UNCHANGED <<configVars, refreshVars, multiVars, lifeVars, clusterVars, emitted, envVars, failures, loaderVars, call,
                 errorListeners, errors, hookVars, cleanupTimer, budget>>

\* ------------------------------------------------------------ life cycle
\* autoLoad() up to `await this.readyPromise`: sync(false) has run to its
\* first suspension point (or has returned at once) and the .then callback
\* is chained on its promise
AutoLoad(p) ==
  /\ Spend
  /\ autoCall.pc = "idle"
  /\ SyncBegin(p, FALSE)
  /\ readyPromise' = "pending"
  /\ autoCall' = [IdleAuto EXCEPT !.pc = "awaiting", !.p = p]
  /\ UNCHANGED <<configVars, refreshVars, multiVars, ready, refreshTimer, waitCall, destroyCall, clusterVars, emitted,
                 envVars, failures, storeVars, lastSyncAt, loaderVars, call, errorListeners,
                 errors, hookVars, cleanupTimer>>

\* the promise of sync(false) has settled: when it was fulfilled the .then
\* callback of autoLoad runs (attachHooks, startAutoRefresh, startCleanup,
\* ready, "ready"); readyPromise settles, and autoLoad and every
\* waitUntilReady awaiting it settle with it
AutoLoadThen ==
  /\ autoCall.pc = "awaiting"
  /\ syncCall[autoCall.p].pc = "idle"
  /\ LET rejected == syncCall[autoCall.p].outcome = "raise"
         settled == IF rejected THEN "rejected" ELSE "resolved"
     IN /\ readyPromise' = settled
        /\ autoCall' = [autoCall EXCEPT !.pc = "done", !.result = settled]
        /\ waitCall' = IF waitCall.pc = "waiting"
                         THEN [waitCall EXCEPT !.pc = "done", !.result = settled]
                         ELSE waitCall
        /\ IF rejected
             THEN UNCHANGED <<ready, refreshTimer, cleanupTimer, hookVars, emitted>>
             ELSE /\ modelHooks' = modelHooks + 1
                  /\ hookRefs' = TRUE
                  /\ refreshTimer' = TRUE
                  /\ cleanupTimer' = (cleanupTimer \/ ttlMs # 0)
                  /\ ready' = TRUE
                  /\ emitted' = Append(emitted, Event("A", "ready", "-", "-"))
  /\ UNCHANGED <<configVars, refreshVars, multiVars, destroyCall, clusterVars, envVars, failures, storeVars, syncVars,
                 loaderVars, call, errorListeners, errors, budget>>

\* waitUntilReady(): awaits this.readyPromise when there is one
WaitUntilReady ==
  /\ Spend
  /\ waitCall.pc = "idle"
  /\ waitCall' =
       IF readyPromise = "pending"
         THEN [IdleWait EXCEPT !.pc = "waiting", !.seen = readyPromise]
         ELSE [IdleWait EXCEPT !.pc = "done", !.seen = readyPromise,
                               !.result = IF readyPromise = "none" THEN "resolved"
                                                                   ELSE readyPromise]
  /\ UNCHANGED <<configVars, refreshVars, multiVars, ready, readyPromise, refreshTimer, autoCall, destroyCall,
                 clusterVars, emitted, envVars, failures, storeVars, syncVars, loaderVars, call,
                 errorListeners, errors, hookVars, cleanupTimer>>

\* isReady()
IsReady == ready

\* destroy() up to the suspension of `await this.clear()`: stopAutoRefresh,
\* stopCleanup, detachHooks, removeAllListeners, and the unscoped clear()
MaxDestroys == 2

DestroyStart ==
  /\ Spend
  /\ destroyCall.pc # "clearing"
  /\ destroyCall.returned < MaxDestroys
  /\ refreshTimer' = FALSE
  /\ cleanupTimer' = FALSE
  /\ IF hookRefs
       THEN /\ modelHooks' = modelHooks - 1
            /\ hookRefs' = FALSE
       ELSE UNCHANGED hookVars
  /\ errorListeners' = 0
  /\ ApplyStore(PurgeRedis(ClearedStore(Store)), ZeroMetrics)
  /\ destroyCall' = [destroyCall EXCEPT !.pc = "clearing", !.result = "none"]
  /\ UNCHANGED <<configVars, refreshVars, multiVars, ready, readyPromise, autoCall, waitCall, clusterVars, emitted,
                 envVars, failures, syncVars, loaderVars, call, errors>>

\* destroy() after its awaits: the subscriber is unsubscribed, ready is
\* reset and the call returns
DestroyReturn ==
  /\ destroyCall.pc = "clearing"
  /\ ready' = FALSE
  /\ cluster' = [cluster EXCEPT !["A"] = "off"]
  /\ destroyCall' = [pc |-> "done", returned |-> destroyCall.returned + 1,
                      result |-> "resolved"]
  /\ UNCHANGED <<configVars, refreshVars, multiVars, readyPromise, refreshTimer, autoCall, waitCall, inbox, published,
                 peer, emitted, envVars, failures, storeVars, syncVars, loaderVars, call,
                 errorListeners, errors, hookVars, cleanupTimer, budget>>

\* ------------------------------------------------------------ orchestrator
\* MultiModelCacheManager.  Each managed CacheManager is followed through its
\* autoLoad only: the findAll of its initial sync (load), its readyPromise
\* and ready flag, and whether _forwardEvents' listeners are still on it.
cacheVars == <<configVars, refreshVars, lifeVars, clusterVars, emitted, db, redisUp, storeVars, syncVars,
               loaderVars, call, errorListeners, errors, hookVars, cleanupTimer>>

\* multiCache.on("error", listener)
MmOnError ==
  /\ multi.listeners = 0
  /\ multi' = [multi EXCEPT !.listeners = 1]
  /\ UNCHANGED <<cacheVars, now, failures, budget, managed, mmCall>>

\* the managers that `this.managers.set(modelName, manager)` drops from the
\* map while their hooks are attached and their timers run
Replaced == {n \in multi.managers : managed[n].ready}

\* init(): one CacheManager per model, events forwarded, autoLoad() started
\* on each, up to `await Promise.all(initPromises)`
MmInit ==
  /\ Spend
  /\ mmCall.init.pc # "awaiting"
  /\ mmCall.destroy.pc # "running"
  /\ \A n \in ModelNames : managed[n].load # "fetching"
  /\ IF multi.initialized
       THEN /\ mmCall' = [mmCall EXCEPT !.op = [name |-> "init", model |-> "-",
                                                  result |-> "alreadyInitialized"]]
            /\ UNCHANGED <<multi, managed>>
       ELSE /\ multi' = [multi EXCEPT !.managers = ModelNames,
                                       !.orphans = @ \cup Replaced]
            /\ managed' = [n \in ModelNames |->
                  [load |-> "fetching", readyPromise |-> "pending", ready |-> FALSE,
                   forwarding |-> TRUE]]
            /\ mmCall' = [mmCall EXCEPT !.init = [pc |-> "awaiting", result |-> "none"],
                                         !.torn = FALSE]
  /\ UNCHANGED <<cacheVars, now, failures>>

\* emit("error") on a managed CacheManager: the listener of _forwardEvents
\* re-emits on the orchestrator, which throws when nobody listens there; a
\* manager whose listeners were removed throws itself
ManagedErrorHandled(n) == managed[n].forwarding /\ multi.listeners > 0

\* the findAll of a managed cache's sync(false) settles (ok: fulfilled).
\* sync() ends, the .then callback of autoLoad runs unless sync rejected, and
\* everything awaiting the readyPromise continues: init() after
\* Promise.all, and a waitUntilReady() racing its timer
ManagedAnswer(n, ok) ==
  /\ managed[n].load = "fetching"
  /\ IF ok THEN UNCHANGED failures
           ELSE /\ failures < MaxFailures
                /\ failures' = failures + 1
  /\ LET rejected == ~ok /\ ~ManagedErrorHandled(n)
         m1 == [managed EXCEPT ![n] =
                  [@ EXCEPT !.load = IF ok THEN "ok" ELSE "failed",
                            !.readyPromise = IF rejected THEN "rejected" ELSE "resolved",
                            !.ready = IF rejected THEN @ ELSE TRUE]]
         allResolved == \A k \in ModelNames : m1[k].readyPromise = "resolved"
         initSettles == mmCall.init.pc = "awaiting" /\ (rejected \/ allResolved)
         w == mmCall.wait
         left == w.awaiting \ {n}
     IN /\ managed' = m1
        /\ multi' = [multi EXCEPT !.initialized = IF initSettles /\ ~rejected THEN TRUE ELSE @]
        /\ mmCall' = [mmCall EXCEPT
              !.init = IF initSettles
                         THEN [pc |-> "done",
                               result |-> IF rejected THEN "rejected" ELSE "resolved"]
                         ELSE @,
              !.wait = IF w.pc = "racing" /\ n \in w.awaiting
                         THEN (IF rejected
                                 THEN [w EXCEPT !.pc = "done", !.result = "rejected",
                                                !.awaiting = {}]
                               ELSE IF left = {}
                                 THEN [w EXCEPT !.pc = "done", !.result = "resolved",
                                                !.awaiting = {}]
                               ELSE [w EXCEPT !.awaiting = left])
                         ELSE @]
  /\ UNCHANGED <<cacheVars, now, budget>>

\* getManager(name).autoLoad(): a managed cache is loaded again
ManagedAutoLoad(n) ==
  /\ Spend
  /\ multi.initialized
  /\ n \in multi.managers
  /\ managed[n].load # "fetching"
  /\ managed' = [managed EXCEPT ![n] = [@ EXCEPT !.load = "fetching",
                                                  !.readyPromise = "pending"]]
  /\ UNCHANGED <<cacheVars, now, failures, multi, mmCall>>

\* _assertInitialized, then this.managers.get(modelName)
GetManager(name) ==
  IF ~multi.initialized THEN "notInitialized"
  ELSE IF name \notin multi.managers THEN "noManager"
  ELSE "manager"

\* the operations that go through getManager(modelName), and those that
\* only call _assertInitialized (getStats and size without a model name)
NamedOps == {"getManager", "getById", "getByKey", "getManyByKey", "invalidate", "getAll",
             "getStats", "size"}
UnnamedOps == {"getManagers", "getStats", "size"}

MmQuery(op, name) ==
  /\ Spend
  /\ \/ op \in NamedOps /\ name \in AllNames
     \/ op \in UnnamedOps /\ name = "-"
  /\ mmCall' = [mmCall EXCEPT !.op =
        [name |-> op, model |-> name,
         result |-> IF name = "-"
                      THEN (IF multi.initialized THEN "ok" ELSE "notInitialized")
                    ELSE IF GetManager(name) = "manager" THEN "ok"
                    ELSE GetManager(name)]]
  /\ UNCHANGED <<cacheVars, now, failures, multi, managed>>

\* timeouts handed to waitUntilReady
MaxTimeout == 2

\* waitUntilReady(timeoutMs) up to `await Promise.race(...)`; promises that
\* are settled already decide the race before the timer can fire
MmWaitUntilReady(timeoutMs) ==
  /\ Spend
  /\ mmCall.wait.pc # "racing"
  /\ LET pending == {n \in multi.managers : managed[n].readyPromise = "pending"}
         rejected == \E n \in multi.managers : managed[n].readyPromise = "rejected"
         done(r) == [pc |-> "done", deadline |-> 0, awaiting |-> {}, result |-> r]
     IN mmCall' = [mmCall EXCEPT !.wait =
          IF ~multi.initialized THEN done("notInitialized")
          ELSE IF rejected THEN done("rejected")
          ELSE IF pending = {} THEN done("resolved")
          ELSE [pc |-> "racing", deadline |-> now + timeoutMs, awaiting |-> pending,
                result |-> "none"]]
  /\ UNCHANGED <<cacheVars, now, failures, multi, managed>>

MmTickCancels ==
  /\ now < MaxTime
  /\ now' = now + 1
  /\ mmCall' = [mmCall EXCEPT !.wait =
        IF @.pc = "racing" /\ now + 1 >= @.deadline
          THEN [pc |-> "done", deadline |-> 0, awaiting |-> {}, result |-> "timeout"]
          ELSE @]
  /\ managed' = [n \in ModelNames |->
        IF mmCall.wait.pc = "racing" /\ now + 1 >= mmCall.wait.deadline
             /\ n \in mmCall.wait.awaiting
          THEN [managed[n] EXCEPT !.load = "none", !.readyPromise = "rejected"]
          ELSE managed[n]]
  /\ UNCHANGED <<cacheVars, failures, budget, multi>>

\* time passes; the timer of a waitUntilReady fires when it is due
MmTick ==
  /\ now < MaxTime
  /\ now' = now + 1
  /\ mmCall' = [mmCall EXCEPT !.wait =
        IF @.pc = "racing" /\ now + 1 >= @.deadline
          THEN [pc |-> "done", deadline |-> 0, awaiting |-> {}, result |-> "timeout"]
          ELSE @]
  /\ UNCHANGED <<cacheVars, failures, budget, multi, managed>>

\* destroy() up to `await Promise.allSettled(destroyPromises)`: destroy() is
\* called on every manager, which removes the manager's listeners at once
MmDestroyStart ==
  /\ Spend
  /\ mmCall.destroy.pc # "running"
  /\ managed' = [n \in ModelNames |->
        IF n \in multi.managers THEN [managed[n] EXCEPT !.forwarding = FALSE]
                                 ELSE managed[n]]
  /\ mmCall' = [mmCall EXCEPT !.destroy = [pc |-> "running"]]
  /\ UNCHANGED <<cacheVars, now, failures, multi>>

\* destroy() after the managers' destroy() have returned (each resets its
\* ready flag): managers.clear(), removeAllListeners(), initialized = false
MmDestroyReturn ==
  /\ mmCall.destroy.pc = "running"
  /\ managed' = [n \in ModelNames |->
        IF n \in multi.managers THEN [managed[n] EXCEPT !.ready = FALSE]
                                 ELSE managed[n]]
  /\ multi' = [initialized |-> FALSE, managers |-> {}, listeners |-> 0,
                orphans |-> multi.orphans]
  /\ mmCall' = [mmCall EXCEPT !.destroy = [pc |-> "done"], !.torn = TRUE]
  /\ UNCHANGED <<cacheVars, now, failures, budget>>

\* isInitialized()
IsInitialized == multi.initialized

\* ------------------------------------------------------------ specifications
\* ---- the lazy loader and the read path --------------------------------
LoaderOps == 2

InitLoader ==
  \E lazy \in BOOLEAN, swr \in BOOLEAN, listeners \in {0, 1} :
    InitWith(<<"email">>, 1, 0, lazy, swr, FALSE, TRUE, listeners, 2, 0, LoaderOps)

NextLoader ==
  \/ Tick
  \/ \E i \in Ids, e \in Emails : DbUpdate(i, e)
  \/ \E i \in Ids : DbDestroy(i)
  \/ \E arr \in PlainArrays : LoadFromJSON(arr, FALSE)
  \/ \E c \in Callers, i \in Ids : GetById(c, i)
  \/ \E c \in Callers, v \in Emails : GetByKey(c, "email", v)
  \/ \E fid \in 1..(2 * MaxSlots) : FetchAnswer(fid)
  \/ \E fid \in 1..(2 * MaxSlots) : FetchSettle(fid)

SpecLoader == InitLoader /\ [][NextLoader]_vars

\* the load key of the read invocation in slot c
CallKey(c) ==
  IF call[c].op = "getById" THEN IdKey(call[c].id)
  ELSE FieldKey(call[c].field, call[c].values[1])

\* the entry the read invocation in slot c looked up
CachedEntry(c) ==
  IF call[c].op = "getById" THEN cache.id[Str(call[c].id)]
  ELSE cache.byKey[call[c].field][call[c].values[1]]

\* C2: at most one backing-store fetch is outstanding per load key, and every
\* read waiting on a lazy load waits on the one fetch registered for its key.
C2_OneFetchPerKey ==
  /\ \A f1 \in fetches, f2 \in fetches : f1.key = f2.key => f1 = f2
  /\ \A c \in Callers : call[c].pc = "awaitLoad" =>
        \E f \in fetches : f.fid = call[c].fid /\ f.key = CallKey(c)

\* two overlapping getById calls for the same missing id, one findByPk
C2_Witness ==
  /\ \A c \in Callers : call[c].pc = "awaitLoad" /\ call[c].op = "getById" /\ call[c].id = 1
  /\ Cardinality(Callers) = 2
  /\ Cardinality({f \in fetches : f.kind = "pk" /\ f.id = 1}) = 1

\* C7: when the fetch of a lazy load fails, every getById / getByKey waiting
\* on it resolves to null (it does not reject), and the failure is emitted
\* as an error notification.
C7_FailedLoadResolvesNull ==
  [][\A f \in fetches :
        (f.st = "answered" /\ f.res.kind = "raise" /\ f \notin fetches') =>
          /\ \A c \in Callers :
                (call[c].pc = "awaitLoad" /\ call[c].fid = f.fid) =>
                   call'[c].result.kind = "null"
          /\ errors' = Append(errors, f.res.cause)]_vars

\* the step in which a getById / getByKey that hit an expired entry returns
ExpiredHitReturns(c) ==
  /\ call'[c] # call[c]
  /\ call'[c].pc = "done"
  /\ call'[c].op \in {"getById", "getByKey"}
  /\ call'[c].expiredHit

\* the fetch registered for the load key of slot c after the step
RefreshScheduled(c) ==
  \E f \in fetches' : f.key = CallKey(c)' /\ loadingPromises'[f.key] = f.fid

\* C9 as stated: under stale-while-revalidate, a read that hits an expired
\* entry returns that entry's data without having waited for a fetch, and a
\* refresh of its key is scheduled by the same call.
C9_StaleServedAndRefreshed ==
  [][\A c \in Callers :
        (staleWhileRevalidate /\ ExpiredHitReturns(c)) =>
          /\ call[c].pc # "awaitLoad"
          /\ call'[c].result = RowResult(CachedEntry(c)'.data)
          /\ CachedEntry(c)'.expiresAt < now
          /\ RefreshScheduled(c)]_vars

\* C9 amended: the refresh is scheduled when lazy loading is enabled; with
\* lazy loading disabled the stale data is returned and nothing is fetched.
C9_StaleServed ==
  [][\A c \in Callers :
        (staleWhileRevalidate /\ ExpiredHitReturns(c)) =>
          /\ call[c].pc # "awaitLoad"
          /\ call'[c].result = RowResult(CachedEntry(c)'.data)
          /\ CachedEntry(c)'.expiresAt < now
          /\ IF lazyReload THEN RefreshScheduled(c) ELSE fetches' = fetches]_vars

\* a getByKey served stale data while its refresh is pending
C9_Witness ==
  \E c \in Callers :
    /\ staleWhileRevalidate /\ lazyReload
    /\ call[c].pc = "done" /\ call[c].expiredHit /\ call[c].result.kind = "row"
    /\ \E f \in fetches : f.key = CallKey(c)

\* the fetch a waiting read invocation is waiting for
AwaitedFetch(c) == CHOOSE f \in fetches : f.fid = call[c].fid

\* C10 as stated: without stale-while-revalidate, a getById that hit an
\* expired entry has waited for a fetch and returns the fetched record, or
\* null when the record no longer exists.
C10_FreshOrNull ==
  [][\A c \in Callers :
        (~staleWhileRevalidate /\ ExpiredHitReturns(c) /\ call'[c].op = "getById") =>
          /\ call[c].pc = "awaitLoad"
          /\ \E f \in fetches : f.fid = call[c].fid /\ f.kind = "pk" /\ f.id = call[c].id
          /\ AwaitedFetch(c).res.kind \in {"row", "null"}
          /\ call'[c].result = AwaitedFetch(c).res]_vars

\* C10 amended: that holds when lazy loading is enabled and the fetch
\* succeeds; a failed fetch gives null (or the rejection of C7), never the
\* expired data; with lazy loading disabled the call returns undefined
\* without fetching.
C10_FreshOrNullWhenLazy ==
  [][\A c \in Callers :
        (~staleWhileRevalidate /\ ExpiredHitReturns(c) /\ call'[c].op = "getById") =>
          IF lazyReload
            THEN /\ call[c].pc = "awaitLoad"
                 /\ \E f \in fetches : f.fid = call[c].fid /\ f.kind = "pk" /\ f.id = call[c].id
                 /\ AwaitedFetch(c).res.kind \in {"row", "null"} =>
                       call'[c].result = AwaitedFetch(c).res
                 /\ AwaitedFetch(c).res.kind = "raise" =>
                       call'[c].result.kind \in {"null", "raise"}
            ELSE /\ call'[c].result = Plain("undefined")
                 /\ fetches' = fetches]_vars

\* a getById that hit an expired entry has waited for its fetch and returned
\* the record the backing store answered with
C10_Witness ==
  \E c \in Callers :
    /\ ~staleWhileRevalidate /\ lazyReload
    /\ call[c].pc = "done" /\ call[c].op = "getById" /\ call[c].expiredHit
    /\ call[c].result.kind = "row"
    /\ call[c].result.val.id = 1
    /\ call[c].id = 1

\* ---- the sync engine ---------------------------------------------------
SyncOps == 3

InitSync ==
  \E rds \in BOOLEAN, listeners \in {0, 1} :
    InitWith(<<"email">>, 0, 0, TRUE, TRUE, rds, TRUE, listeners, 0, 2, SyncOps)

NextSync ==
  \/ Tick
  \/ AttachHooks
  \/ \E i \in Ids, e \in Emails : DbCreate(i, e)
  \/ \E i \in Ids, e \in Emails : DbUpdate(i, e)
  \/ \E i \in Ids : DbDestroy(i)
  \/ \E p \in Syncers, inc \in BOOLEAN : SyncStart(p, inc)
  \/ \E p \in Syncers : SyncAnswer(p)
  \/ \E p \in Syncers : SyncFail(p)
  \/ \E p \in Syncers : SyncResume(p)
  \/ \E p \in Syncers : SyncAfterClear(p)
  \/ \E p \in Syncers : SyncAfterPipeline(p)

SpecSync == InitSync /\ [][NextSync]_vars

\* the sync invocations whose body is running
InFlight == {p \in Syncers : syncCall[p].pc # "idle"}

\* C5: syncing is true exactly while one sync body is in flight and at most
\* one is; a sync() called while syncing is true returns at once without
\* fetching and without touching the cache or lastSyncAt, and is not run
\* later; when a sync body ends, by success or by exception, syncing is false.
C5_SyncingGuard ==
  [][/\ (syncing' <=> InFlight' # {})
     /\ Cardinality(InFlight') <= 1
     /\ \A p \in Syncers :
          (syncing /\ syncCall[p].pc = "idle" /\ syncCall'[p] # syncCall[p]) =>
             /\ syncCall'[p].pc = "idle"
             /\ syncCall'[p].outcome = "skipped"
             /\ UNCHANGED <<cache, lruOrder, metrics, redis, lastSyncAt, syncing, db>>
     /\ \A p \in Syncers :
          (syncCall[p].pc # "idle" /\ syncCall'[p].pc = "idle") => ~syncing']_vars

\* a sync() was rejected while another one is still waiting for its rows
C5_Witness ==
  \E p \in Syncers, q \in Syncers :
    /\ syncCall[p].pc = "fetching"
    /\ syncCall[q].pc = "idle" /\ syncCall[q].outcome = "skipped"
    /\ syncing

\* C6: when the findAll of a sync raises, no step of that sync call - its
\* start, the failure of the fetch, its catch block - changes the Entry
\* Store, a secondary bucket, the LRU order or lastSyncAt, and the catch block
\* emits an error notification that carries the cause.
C6_FailedSyncKeepsCache ==
  [][\A p \in Syncers :
        /\ (syncCall'[p] # syncCall[p] /\ syncCall'[p].pc \in {"fetching", "failed"}) =>
              UNCHANGED <<cache, lruOrder, lastSyncAt>>
        /\ (syncCall[p].pc = "failed" /\ syncCall'[p].pc = "idle") =>
              /\ UNCHANGED <<cache, lruOrder, lastSyncAt>>
              /\ errors' = Append(errors, syncCall[p].cause)]_vars

\* a full sync failed over a cache that holds an entry, and the entry and the
\* previous lastSyncAt are still there
C6_Witness ==
  \E p \in Syncers :
    /\ syncCall[p].pc = "idle" /\ syncCall[p].outcome \in {"error", "raise"}
    /\ Len(errors) = 1
    /\ cache.id # EmptyMap
    /\ lastSyncAt # 0

\* the records an incremental sync started now would not fetch
NotRefetched == {i \in DOMAIN db : db[i].updatedAt < lastSyncAt}

\* C31: no modification is skipped by every later incremental sync: once a
\* sync has completed and none is in flight, each record whose modification
\* time lies before lastSyncAt (so that no later incremental sync fetches
\* it) is cached in its current version.
C31_NoModificationSkipped ==
  (lastSyncAt # 0 /\ \A p \in Syncers : syncCall[p].pc = "idle") =>
    \A i \in NotRefetched :
      /\ Str(i) \in DOMAIN cache.id
      /\ cache.id[Str(i)].data = Row(i, db[i].email)

\* ---- the entry store, the secondary index and the LRU order ------------
StoreOps == 2

InitStore ==
  \E ms \in {0, 1} :
    InitWith(<<"email">>, 1, ms, TRUE, TRUE, TRUE, TRUE, 1, 1, 1, StoreOps)

NextStore ==
  \/ Tick
  \/ AttachHooks
  \/ DetachHooks
  \/ \E i \in Ids, e \in Emails : DbCreate(i, e)
  \/ \E i \in Ids, e \in Emails : DbUpdate(i, e)
  \/ \E i \in Ids : DbDestroy(i)
  \/ \E c \in Callers, i \in Ids : GetById(c, i)
  \/ \E c \in Callers : GetByIdRestore(c)
  \/ \E c \in Callers, v \in Emails : GetByKey(c, "email", v)
  \/ \E fid \in 1..(2 * MaxSlots) : FetchAnswer(fid)
  \/ \E fid \in 1..(2 * MaxSlots) : FetchSettle(fid)
  \/ \E p \in Syncers, inc \in BOOLEAN : SyncStart(p, inc)
  \/ \E p \in Syncers : SyncAnswer(p)
  \/ \E p \in Syncers : SyncFail(p)
  \/ \E p \in Syncers : SyncResume(p)
  \/ \E p \in Syncers : SyncAfterClear(p)
  \/ \E p \in Syncers : SyncAfterPipeline(p)
  \/ \E f \in {"email", "*"} : Clear(f)
  \/ \E v \in Emails : Invalidate("email", v)
  \/ StartCleanup
  \/ CleanupExpired
  \/ \E arr \in MetaArrays : LoadFromJSON(arr, TRUE)
  \/ \E arr \in PlainArrays : LoadFromJSON(arr, FALSE)

SpecStore == InitStore /\ [][NextStore]_vars

\* C1: the identifiers in the LRU order are exactly the keys of the Entry
\* Store.
C1_LruMatchesStore == SeqSet(lruOrder) = DOMAIN cache.id

\* C3: with maxSize = N > 0 the Entry Store never holds more than N entries.
C3_SizeBounded == maxSize > 0 => Cardinality(DOMAIN cache.id) <= maxSize

\* C4: a bucket entry that refers to the identifier of a record in the Entry
\* Store is the Entry Store's own entry object for that identifier.
C4_SharedEntries ==
  \A f \in DOMAIN cache.byKey :
    \A v \in DOMAIN cache.byKey[f] :
      Str(cache.byKey[f][v].data.id) \in DOMAIN cache.id =>
         cache.id[Str(cache.byKey[f][v].data.id)] = cache.byKey[f][v]

\* the identifier _evictLRU takes: the head of the order in which
\* _updateLRU keeps the identifiers, each write and each getById / getByKey
\* hit moving its identifier to the tail
LeastRecentlyUsed(S) == Head(S.lru)

\* C11: with maxSize = N > 0, storing a record whose identifier is not in
\* the Entry Store while N entries are present evicts exactly one entry, the
\* least recently written or read one; storing a record whose identifier is
\* present evicts nothing.
C11_EvictsLeastRecent ==
  maxSize > 0 =>
    \A i \in Ids, e \in Emails :
      LET after == SetItem(Store, Row(i, e), now)
      IN IF Str(i) \in DOMAIN cache.id
           THEN /\ DOMAIN after.id = DOMAIN cache.id
                /\ after.evictions = metrics.evictions
           ELSE Cardinality(DOMAIN cache.id) = maxSize =>
                  /\ lruOrder # <<>>
                  /\ DOMAIN cache.id \ DOMAIN after.id = {LeastRecentlyUsed(Store)}
                  /\ DOMAIN after.id \ DOMAIN cache.id = {Str(i)}
                  /\ after.evictions = metrics.evictions + 1

\* the identifiers that leave the Entry Store in a step
Leaving == DOMAIN cache.id \ DOMAIN cache'.id

\* C26: when a record leaves the Entry Store by LRU eviction, by the TTL
\* cleanup or by an afterDestroy hook, no bucket of the secondary index
\* holds an entry for its identifier after that step, whatever key value
\* the entry is filed under.
C26_RemovalPurgesIndex ==
  [][(\/ \E i \in Ids : DbDestroy(i)
      \/ CleanupExpired
      \/ metrics'.evictions > metrics.evictions) =>
       \A k \in Leaving :
         \A f \in DOMAIN cache'.byKey : \A v \in DOMAIN cache'.byKey[f] :
           Str(cache'.byKey[f][v].data.id) # k]_vars

\* ---- the TTL cleanup ------------------------------------------------------
CleanOps == 3

InitClean ==
  \E ttl \in {0, 1} :
    InitWith(<<"email">>, ttl, 0, TRUE, TRUE, FALSE, TRUE, 1, 0, 1, CleanOps)

NextClean ==
  \/ Tick
  \/ \E arr \in PlainArrays : LoadFromJSON(arr, FALSE)
  \/ \E arr \in MetaArrays : LoadFromJSON(arr, TRUE)
  \/ StartCleanup
  \/ CleanupExpired
  \/ \E p \in Syncers, inc \in BOOLEAN : SyncStart(p, inc)
  \/ \E p \in Syncers : SyncAnswer(p)
  \/ \E p \in Syncers : SyncFail(p)
  \/ \E p \in Syncers : SyncResume(p)
  \/ \E p \in Syncers : SyncAfterClear(p)

SpecClean == InitClean /\ [][NextClean]_vars

\* `entry.expiresAt < now` at the cleanup tick
Overdue(entry) == entry.expiresAt < now

\* C37: with a TTL and no sync in progress a cleanup tick removes exactly
\* the overdue entries: the overdue identifiers leave the Entry Store and the
\* LRU order, the overdue bucket entries leave their buckets, and everything
\* else stays as it was; with no TTL startCleanup starts no timer.
C37_CleanupRemovesOverdue ==
  /\ [][(CleanupExpired /\ ttlMs # 0 /\ ~syncing) =>
          LET gone == {k \in DOMAIN cache.id : Overdue(cache.id[k])}
          IN /\ DOMAIN cache'.id = DOMAIN cache.id \ gone
             /\ \A k \in DOMAIN cache'.id : cache'.id[k] = cache.id[k]
             /\ lruOrder' = SelectSeq(lruOrder, LAMBDA k : k \notin gone)
             /\ DOMAIN cache'.byKey = DOMAIN cache.byKey
             /\ \A f \in DOMAIN cache.byKey :
                  /\ DOMAIN cache'.byKey[f] =
                       {v \in DOMAIN cache.byKey[f] : ~Overdue(cache.byKey[f][v])}
                  /\ \A v \in DOMAIN cache'.byKey[f] :
                       cache'.byKey[f][v] = cache.byKey[f][v]]_vars
  /\ [](ttlMs = 0 => ~cleanupTimer)

\* the cleanup has removed two overdue entries and kept the entry of record
\* 1, stored after them and due only now
C37_Witness ==
  /\ ttlMs # 0
  /\ cleanupTimer
  /\ DOMAIN cache.id = {"1"}
  /\ UsedOids(Store) = {2}
  /\ cache.id["1"].expiresAt = now
  /\ lruOrder = <<"1">>

\* ---- expired entries of deleted records -----------------------------------
StaleOps == 3

InitStale ==
  \E swr \in BOOLEAN :
    InitWith(<<"email">>, 1, 0, TRUE, swr, FALSE, TRUE, 1, 1, 0, StaleOps)

NextStale ==
  \/ Tick
  \/ \E arr \in PlainArrays : LoadFromJSON(arr, FALSE)
  \/ \E i \in Ids : DbDestroy(i)
  \/ \E c \in Callers, i \in Ids : GetById(c, i)
  \/ \E fid \in 1..(2 * MaxSlots) : FetchAnswer(fid)
  \/ \E fid \in 1..(2 * MaxSlots) : FetchSettle(fid)
  \/ StartCleanup
  \/ CleanupExpired

\* a timer that was started fires, and the backing store answers
SpecStale ==
  /\ InitStale
  /\ [][NextStale]_vars
  /\ WF_vars(CleanupExpired)
  /\ WF_vars(\E fid \in 1..(2 * MaxSlots) : FetchAnswer(fid))
  /\ WF_vars(\E fid \in 1..(2 * MaxSlots) : FetchSettle(fid))

\* getById(i) has returned the expired data of a record that is no longer
\* in the table, the reload it started has settled, and a getById(i) called
\* now returns that data again
ServesStale(i) ==
  /\ i \notin DOMAIN db
  /\ Str(i) \in DOMAIN cache.id
  /\ IsExpiredAt(cache.id[Str(i)], now)
  /\ ~AwaitsRefresh
  /\ loadingPromises = EmptyMap
  /\ \E c \in Callers :
       /\ call[c].pc = "done" /\ call[c].op = "getById" /\ call[c].id = i
       /\ call[c].expiredHit
       /\ call[c].result = RowResult(cache.id[Str(i)].data)

\* C38: with a TTL, the expired entry of a deleted record is not served for
\* ever: from a state in which getById would return its stale data a state
\* is reached in which it no longer does.
C38_StaleNotServedForever ==
  \A i \in Ids : ServesStale(i) ~> ~ServesStale(i)

\* ---- readiness ----------------------------------------------------------
ReadyOps == 3

InitReady ==
  \E listeners \in {0, 1} :
    InitWith(<<"email">>, 1, 0, TRUE, TRUE, TRUE, TRUE, listeners, 0, 2, ReadyOps)

NextReady ==
  \/ Tick
  \/ \E p \in Syncers : AutoLoad(p)
  \/ AutoLoadThen
  \/ WaitUntilReady
  \/ \E p \in Syncers, inc \in BOOLEAN : SyncStart(p, inc)
  \/ \E p \in Syncers : SyncAnswer(p)
  \/ \E p \in Syncers : SyncFail(p)
  \/ \E p \in Syncers : SyncResume(p)
  \/ \E p \in Syncers : SyncAfterClear(p)
  \/ \E p \in Syncers : SyncAfterPipeline(p)

SpecReady == InitReady /\ [][NextReady]_vars

\* C12: the cache becomes ready, and "ready" is emitted, only in the step in
\* which autoLoad's full sync has succeeded and the hooks, the auto-refresh
\* timer and the TTL-cleanup timer have been set up; an autoLoad whose full
\* sync did not complete successfully leaves the cache not ready and rejects.
C12_ReadyOnlyAfterFullSync ==
  [][/\ (IsReady' /\ ~IsReady) =>
          /\ autoCall.pc = "awaiting"
          /\ syncCall[autoCall.p].mode = "full"
          /\ syncCall[autoCall.p].outcome = "ok"
          /\ hookRefs' /\ modelHooks' > 0
          /\ refreshTimer'
          /\ cleanupTimer'
          /\ emitted' = Append(emitted, Event("A", "ready", "-", "-"))
     /\ (autoCall.pc = "awaiting" /\ autoCall'.pc = "done" /\
           syncCall[autoCall.p].outcome # "ok") =>
          /\ ~IsReady'
          /\ autoCall'.result = "rejected"]_vars

\* C13: a waitUntilReady() call returns only once the promise of an autoLoad
\* has settled, and it settles the way that promise did.
C13_WaitSettlesWithAutoLoad ==
  [][(waitCall.pc # "done" /\ waitCall'.pc = "done") =>
        /\ readyPromise' \in {"resolved", "rejected"}
        /\ waitCall'.result = readyPromise']_vars

\* ---- cluster-wide invalidation -----------------------------------------
ClusterOps == 3

InitCluster ==
  /\ InitCore(<<"email">>, 0, 0, TRUE, TRUE, TRUE, TRUE, 1, 0, 0, ClusterOps)
  /\ InitModes(TRUE, TRUE)

NextCluster ==
  \/ RedisFlip
  \/ \E i \in Instances : ClusterConnected(i)
  \/ \E i \in Instances : ClusterSubscribed(i)
  \/ \E arr \in PlainArrays : LoadFromJSON(arr, FALSE)
  \/ \E arr \in PlainArrays : PeerSetItems(arr)
  \/ \E v \in Emails : Invalidate("email", v)
  \/ \E v \in Emails : PeerInvalidate("email", v)
  \/ \E i \in Instances : Deliver(i)

SpecCluster == InitCluster /\ [][NextCluster]_vars

\* the step in which instance i handles the oldest message of its inbox
Handles(i) == inbox[i] # <<>> /\ inbox'[i] = Tail(inbox[i])

\* the number of invalidate() calls made so far, on either instance
InvalidateCalls ==
  Cardinality({k \in DOMAIN emitted : emitted[k].name = "itemInvalidated"})

\* C14: an instance that handles a message whose source is its own instance
\* id changes no cache state; handling a message, own or foreign, publishes
\* nothing; and the number of published messages never exceeds the number of
\* invalidate() calls.
C14_NoEcho ==
  /\ [][\A i \in Instances :
          Handles(i) =>
            /\ published' = published
            /\ \A j \in Instances \ {i} : inbox'[j] = inbox[j]
            /\ Head(inbox[i]).source = i =>
                  IF i = "A" THEN UNCHANGED <<cache, lruOrder, metrics, redis>>
                             ELSE UNCHANGED <<peer, redis>>]_vars
  /\ [](published <= InvalidateCalls)

\* C30: an instance that handles a foreign invalidation message for
\* (field, value) ends with the Entry Store and the secondary indexes that
\* invalidate(field, value) called on it would leave, and publishes nothing.
C30_ForeignLikeLocal ==
  [][(Handles("A") /\ ~IsOwnMessage("A", Head(inbox["A"]))) =>
        LET msg == Head(inbox["A"])
            local == RemoveByKey(Store, msg.field, msg.value)
        IN /\ cache'.id = local.id
           /\ cache'.byKey = local.byKey
           /\ published' = published]_vars

\* instance A invalidated "a", its message was published and has been
\* handled by A itself, which holds the key again
C14_Witness ==
  /\ published = 1
  /\ emitted = <<Event("A", "itemInvalidated", "email", "a")>>
  /\ inbox["A"] = <<>>
  /\ HasKey(Store, "email", "a")

\* the step in which invalidate(field, value) is called on instance A
InvalidatedOnA(field, value) ==
  emitted' = Append(emitted, Event("A", "itemInvalidated", field, value))

\* C15: whenever invalidate(field, value) is called on A while B holds the
\* key, the message is put on the channel for B's subscriber, and B, handling
\* a message of A, no longer has the key; A changes nothing when it handles
\* its own message.
C15_PeerLosesKey ==
  [][/\ \A v \in Emails :
          (InvalidatedOnA("email", v) /\ HasKey(PeerStore, "email", v)) =>
             inbox'["B"] = Append(inbox["B"], Message("email", v, "A"))
     /\ (Handles("B") /\ Head(inbox["B"]).source = "A") =>
          ~HasKey(PeerStore', Head(inbox["B"]).field, Head(inbox["B"]).value)
     /\ (Handles("A") /\ Head(inbox["A"]).source = "A") =>
          UNCHANGED <<cache, lruOrder, metrics>>]_vars

\* ---- frame effects of invalidate and clear -------------------------------
FrameOps == 3

\* the key fields of a cache indexed by identifier and by email, and the
\* values a key can take
KeyFieldNames == {"id", "email"}
KeyValues(field) == IF field = "id" THEN {Str(i) : i \in Ids} ELSE Emails

InitFrame ==
  \E ms \in {0, 1} :
    InitWith(<<"id", "email">>, 0, ms, FALSE, TRUE, FALSE, TRUE, 1, 1, 1, FrameOps)

NextFrame ==
  \/ \E arr \in PlainArrays : LoadFromJSON(arr, FALSE)
  \/ \E c \in Callers, i \in Ids : GetById(c, i)
  \/ \E f \in KeyFieldNames : \E v \in KeyValues(f) : Invalidate(f, v)
  \/ \E f \in KeyFieldNames \cup {"*"} : Clear(f)
  \/ \E p \in Syncers, inc \in BOOLEAN : SyncStart(p, inc)
  \/ \E p \in Syncers : SyncAnswer(p)
  \/ \E p \in Syncers : SyncFail(p)
  \/ \E p \in Syncers : SyncResume(p)
  \/ \E p \in Syncers : SyncAfterClear(p)

SpecFrame == InitFrame /\ [][NextFrame]_vars

Counters == {"hits", "misses", "evictions"}

\* C17: clear(field) deletes that field's bucket and nothing else: the Entry
\* Store, every other bucket, the LRU order and the counters are unchanged;
\* a counter goes down only in a step that runs the unscoped clear(), called
\* directly or by a full sync.
C17_ClearFieldFrame ==
  [][/\ \A f \in KeyFieldNames :
          Clear(f) =>
            /\ DOMAIN cache'.byKey = DOMAIN cache.byKey \ {f}
            /\ \A g \in DOMAIN cache'.byKey : cache'.byKey[g] = cache.byKey[g]
            /\ cache'.id = cache.id
            /\ lruOrder' = lruOrder
            /\ metrics' = metrics
     /\ (\E k \in Counters : metrics'[k] < metrics[k]) =>
          \/ Clear("*")
          \/ \E p \in Syncers : syncCall[p].mode = "full" /\ SyncResume(p)]_vars

\* the email bucket was cleared while records, the identifier bucket and a
\* counted hit are still there
C17_Witness ==
  /\ "email" \notin DOMAIN cache.byKey
  /\ "id" \in DOMAIN cache.byKey
  /\ cache.byKey["id"] # EmptyMap
  /\ cache.id # EmptyMap
  /\ lruOrder # <<>>
  /\ metrics.hits > 0

\* ---- the mode of a sync --------------------------------------------------
ModeOps == 3

InitMode ==
  \E upd \in BOOLEAN, ga \in BOOLEAN :
    /\ InitCore(<<"email">>, 0, 0, TRUE, TRUE, FALSE, upd, 1, 0, 1, ModeOps)
    /\ InitModes(ga, FALSE)

NextMode ==
  \/ Tick
  \/ \E i \in Ids, e \in Emails : DbUpdate(i, e)
  \/ \E p \in Syncers, inc \in BOOLEAN : SyncStart(p, inc)
  \/ \E p \in Syncers : SyncAnswer(p)
  \/ \E p \in Syncers : SyncFail(p)
  \/ \E p \in Syncers : SyncResume(p)
  \/ \E p \in Syncers : SyncAfterClear(p)

SpecMode == InitMode /\ [][NextMode]_vars

\* C18: a sync(incremental) that is not skipped fetches incrementally only
\* when incremental is true, lastSyncAt is set and the model has the
\* updatedAt field; otherwise it runs a full sync, and the call goes on to
\* its fetch without raising.
C18_IncrementalOnlyWithUpdatedAt ==
  [][\A p \in Syncers, inc \in BOOLEAN :
        (SyncStart(p, inc) /\ ~syncing) =>
          /\ syncCall'[p].pc = "fetching"
          /\ syncCall'[p].mode =
                IF inc /\ lastSyncAt # 0 /\ hasUpdatedAt THEN "inc" ELSE "full"]_vars

\* ---- snapshots ------------------------------------------------------------
SnapshotOps == 3

InitSnapshot ==
  \E ttl \in {0, 1}, ms \in {0, 1} :
    InitWith(<<"email">>, ttl, ms, FALSE, TRUE, FALSE, TRUE, 1, 0, 0, SnapshotOps)

NextSnapshot ==
  \/ Tick
  \/ \E arr \in PlainArrays : LoadFromJSON(arr, FALSE)
  \/ \E arr \in MetaArrays : LoadFromJSON(arr, TRUE)
  \/ PeerImport

SpecSnapshot == InitSnapshot /\ [][NextSnapshot]_vars

\* C19: when a new instance with the same configuration imports
\* toJSON(true) of a cache with loadFromJSON(..., true), its getAll() returns
\* exactly the records of the cache's getAll(), and no entry that had
\* already expired is in it.
C19_SnapshotRoundTrip ==
  [][PeerImport =>
       /\ GetAllRows(PeerStore', now) = GetAllRows(Store, now)
       /\ ttlMs # 0 => \A k \in DOMAIN peer'.id : ~(peer'.id[k].expiresAt < now)]_vars

C19_Witness ==
  /\ ttlMs # 0
  /\ peer.id # EmptyMap
  /\ \E k \in DOMAIN cache.id \ DOMAIN peer.id : cache.id[k].expiresAt < now
  /\ GetAllRows(PeerStore, now) = GetAllRows(Store, now)
  /\ Len(GetAllRows(Store, now)) >= 1

\* C20: loadFromJSON(entries, true) loads no entry whose expiresAt is before
\* the time of the call, whatever ttlMs is: such an item writes neither the
\* Entry Store nor a bucket.
C20_ExpiredNeverLoaded ==
  [][\A arr \in MetaArrays :
        LoadFromJSON(arr, TRUE) =>
          \A k \in 1..Len(arr) :
            arr[k].expiresAt < now =>
              LET key == Str(arr[k].data.id)
              IN /\ key \in DOMAIN cache'.id =>
                      key \in DOMAIN cache.id /\ cache'.id[key] = cache.id[key]
                 /\ \A f \in DOMAIN cache'.byKey : \A v \in DOMAIN cache'.byKey[f] :
                      cache'.byKey[f][v].data.id = arr[k].data.id =>
                        /\ f \in DOMAIN cache.byKey
                        /\ v \in DOMAIN cache.byKey[f]
                        /\ cache'.byKey[f][v] = cache.byKey[f][v]]_vars

\* ---- teardown -------------------------------------------------------------
DestroyOps == 3

InitDestroy ==
  InitWith(<<"email">>, 1, 0, TRUE, TRUE, TRUE, TRUE, 1, 0, 1, DestroyOps)

\* once destroy() has been called the caller starts nothing but destroy()
NextDestroy ==
  \/ RedisFlip
  \/ destroyCall.pc = "idle" /\ \E arr \in PlainArrays : LoadFromJSON(arr, FALSE)
  \/ destroyCall.pc = "idle" /\ \E p \in Syncers : AutoLoad(p)
  \/ AutoLoadThen
  \/ \E p \in Syncers : SyncAnswer(p)
  \/ \E p \in Syncers : SyncResume(p)
  \/ \E p \in Syncers : SyncAfterClear(p)
  \/ \E p \in Syncers : SyncAfterPipeline(p)
  \/ DestroyStart
  \/ DestroyReturn

SpecDestroy == InitDestroy /\ [][NextDestroy]_vars

\* C21: destroy() never raises, also when it is called a second time; once
\* it has returned, the refresh timer and the cleanup timer are stopped, the
\* hooks are detached from the model, the Entry Store is empty and isReady()
\* is false.
C21_DestroyLeavesNothing ==
  destroyCall.pc = "done" =>
    /\ destroyCall.result = "resolved"
    /\ ~refreshTimer
    /\ ~cleanupTimer
    /\ ~hookRefs /\ modelHooks = 0
    /\ cache.id = EmptyMap
    /\ ~IsReady

\* C34: once destroy() has returned the Entry Store is empty and stays
\* empty, whatever sync was in flight when destroy() was called.
C34_StaysEmptyAfterDestroy ==
  destroyCall.pc = "done" => (cache.id = EmptyMap /\ lruOrder = <<>>)

\* ---- hooks after teardown ------------------------------------------------
UnhookOps == 4

InitUnhook ==
  InitWith(<<"email">>, 0, 0, TRUE, TRUE, FALSE, TRUE, 1, 0, 1, UnhookOps)

\* nothing is pending when destroy() is called
Quiet == autoCall.pc # "awaiting" /\ \A p \in Syncers : syncCall[p].pc = "idle"

\* attachHooks() and autoLoad() are called before destroy(), destroy() is
\* called with nothing pending, and the table changes at any time
NextUnhook ==
  \/ destroyCall.pc = "idle" /\ AttachHooks
  \/ destroyCall.pc = "idle" /\ \E p \in Syncers : AutoLoad(p)
  \/ AutoLoadThen
  \/ \E p \in Syncers : SyncAnswer(p)
  \/ \E p \in Syncers : SyncFail(p)
  \/ \E p \in Syncers : SyncResume(p)
  \/ \E p \in Syncers : SyncAfterClear(p)
  \/ \E i \in Ids, e \in Emails : DbCreate(i, e)
  \/ \E i \in Ids, e \in Emails : DbUpdate(i, e)
  \/ \E i \in Ids : DbDestroy(i)
  \/ Quiet /\ DestroyStart
  \/ DestroyReturn

SpecUnhook == InitUnhook /\ [][NextUnhook]_vars

\* C33: once destroy() has returned no hook of the cache is registered on
\* the model, and a create, update or destroy of a record leaves the cache
\* as it is.
C33_NoHooksAfterDestroy ==
  /\ [](destroyCall.pc = "done" => modelHooks = 0)
  /\ [][(destroyCall.pc = "done" /\ db' # db) => UNCHANGED <<cache, lruOrder>>]_vars

\* ---- outages of the external store ---------------------------------------
OutageOps == 3

InitOutage ==
  InitWith(<<"email">>, 1, 0, TRUE, TRUE, TRUE, TRUE, 1, 1, 1, OutageOps)

NextOutage ==
  \/ RedisFlip
  \/ \E arr \in PlainArrays : LoadFromJSON(arr, FALSE)
  \/ \E c \in Callers, i \in Ids : GetById(c, i)
  \/ \E c \in Callers : GetByIdRestore(c)
  \/ \E fid \in 1..(2 * MaxSlots) : FetchAnswer(fid)
  \/ \E fid \in 1..(2 * MaxSlots) : FetchSettle(fid)
  \/ \E p \in Syncers, inc \in BOOLEAN : SyncStart(p, inc)
  \/ \E p \in Syncers : SyncAnswer(p)
  \/ \E p \in Syncers : SyncFail(p)
  \/ \E p \in Syncers : SyncResume(p)
  \/ \E p \in Syncers : SyncAfterClear(p)
  \/ \E p \in Syncers : SyncAfterPipeline(p)
  \/ Clear("*")
  \/ \E v \in Emails : Invalidate("email", v)

SpecOutage == InitOutage /\ [][NextOutage]_vars

\* no read and no sync has raised
NothingRaised ==
  /\ \A c \in Callers : call[c].result.kind # "raise"
  /\ \A p \in Syncers : syncCall[p].outcome # "raise"

\* what the operations leave in memory when the external store is disabled:
\* a getById that misses counts the miss and starts the lazy load; the step
\* that completes a sync holds every fetched row; clear() empties the
\* stores; invalidate removes the bucket entry
OutageLikeDisabled ==
  /\ \A c \in Callers :
        (GetByIdRestore(c) /\ call[c].reply.kind = "raise") =>
          ReadFinish(c, call[c], FALSE, NoEntry, Str(call[c].id), Store,
                     LazyLoad(IdKey(call[c].id), "pk", call[c].id, "-", "-"))
  /\ \A p \in Syncers :
        (syncCall[p].pc \in {"answered", "clearing", "piping"} /\ syncCall'[p].pc = "idle") =>
          /\ syncCall'[p].outcome = "ok"
          /\ lastSyncAt' = now
          /\ \A k \in 1..Len(syncCall[p].rows) :
                LET row == syncCall[p].rows[k]
                IN /\ Str(row.id) \in DOMAIN cache'.id
                   /\ cache'.id[Str(row.id)].data = row
                   /\ cache'.byKey["email"][row.email].data.email = row.email
  /\ Clear("*") => cache' = [id |-> EmptyMap, byKey |-> EmptyMap] /\ lruOrder' = <<>>
  /\ \A v \in Emails :
        Invalidate("email", v) =>
          /\ cache'.id = cache.id
          /\ "email" \in DOMAIN cache.byKey => v \notin DOMAIN cache'.byKey["email"]

\* C22: with the external store enabled, no failure of an external-store
\* operation is raised from getById, sync, clear or invalidate, and what
\* these operations leave in memory is what they leave with the external
\* store disabled.
C22_StoreFailuresStayInside ==
  [](NothingRaised) /\ [][OutageLikeDisabled]_vars

C22_Witness ==
  /\ redisEnabled /\ ~redisUp
  /\ redis = EmptyMap
  /\ cache.id # EmptyMap
  /\ \E p \in Syncers : syncCall[p].outcome = "ok" /\ syncCall[p].mode = "full"
  /\ \E c \in Callers : call[c].op = "getById" /\ call[c].result.kind = "row"

\* C39: with the external store enabled, a getById whose identifier is not
\* in the Entry Store asks the external store first and starts no fetch in
\* that step; when the external store answers with the entry, the entry is
\* in the Entry Store and last in the LRU order after the step, and when it
\* is not expired the call returns its data and no fetch is started.
C39_ExternalStoreFirst ==
  /\ [][\A c \in Callers, i \in Ids :
          (GetById(c, i) /\ redisEnabled /\ Str(i) \notin DOMAIN cache.id) =>
            (call'[c].pc = "redisGet" /\ UNCHANGED <<loadingPromises, fetches, cache>>)]_vars
  /\ [][\A c \in Callers :
          (GetByIdRestore(c) /\ call[c].reply.kind = "entry") =>
            LET idStr == Str(call[c].id)
            IN /\ idStr \in DOMAIN cache'.id
               /\ cache'.id[idStr].data = call[c].reply.val
               /\ cache'.id[idStr].expiresAt = call[c].reply.exp
               /\ Len(lruOrder') > 0
               /\ lruOrder'[Len(lruOrder')] = idStr
               /\ ~(ttlMs # 0 /\ call[c].reply.exp < now) =>
                     /\ UNCHANGED <<loadingPromises, fetches>>
                     /\ call'[c].pc = "done"
                     /\ call'[c].result = RowResult(call[c].reply.val)]_vars

\* getById has returned a record that it restored from the external store:
\* the record is in the Entry Store and in no bucket, and no fetch was made
C39_Witness ==
  \E c \in Callers :
    /\ call[c].pc = "done" /\ call[c].op = "getById"
    /\ call[c].result.kind = "row"
    /\ ~call[c].expiredHit
    /\ cache.byKey = EmptyMap
    /\ DOMAIN cache.id = {Str(call[c].id)}
    /\ lruOrder = <<Str(call[c].id)>>
    /\ fetches = {}
    /\ metrics.misses = 0

\* ---- the orchestrator ------------------------------------------------------
MultiOps == 3

InitMulti ==
  InitWith(<<"email">>, 0, 0, TRUE, TRUE, FALSE, TRUE, 1, 0, 0, MultiOps)

NextMulti ==
  \/ MmTick
  \/ MmOnError
  \/ MmInit
  \/ \E n \in ModelNames, ok \in BOOLEAN : ManagedAnswer(n, ok)
  \/ \E n \in ModelNames : ManagedAutoLoad(n)
  \/ \E op \in NamedOps \cup UnnamedOps, name \in AllNames \cup {"-"} : MmQuery(op, name)
  \/ \E t \in 1..MaxTimeout : MmWaitUntilReady(t)
  \/ MmDestroyStart
  \/ MmDestroyReturn

SpecMulti == InitMulti /\ [][NextMulti]_vars

\* the last init() has resolved and destroy() has not returned since it was
\* called
InitCompleted ==
  /\ mmCall.init.pc = "done"
  /\ mmCall.init.result = "resolved"
  /\ ~mmCall.torn

\* C23: an orchestrator operation that addresses a model's cache raises the
\* "not initialized" error when it is called before init() has completed or
\* after destroy(), and otherwise raises the "no cache manager found" error
\* when the model name is not a managed one.
C23_GuardedOperations ==
  [][/\ \A op \in NamedOps \cup UnnamedOps, name \in AllNames \cup {"-"} :
          MmQuery(op, name) =>
            /\ ~InitCompleted => mmCall'.op.result = "notInitialized"
            /\ (InitCompleted /\ name \in AllNames \ ModelNames) =>
                  mmCall'.op.result = "noManager"
            /\ (InitCompleted /\ name \in ModelNames) => mmCall'.op.result = "ok"
     /\ \A t \in 1..MaxTimeout :
          (MmWaitUntilReady(t) /\ ~InitCompleted) =>
            mmCall'.wait.result = "notInitialized"]_vars

\* C24: init() rejects, and isInitialized() stays false, whenever the
\* initial load of a managed model fails; it resolves, and isInitialized()
\* becomes true, only when the load of every model succeeded.
C24_InitFailsWithAnyLoad ==
  /\ [][\A n \in ModelNames :
          (ManagedAnswer(n, FALSE) /\ mmCall.init.pc = "awaiting") =>
            (mmCall'.init = [pc |-> "done", result |-> "rejected"] /\ ~IsInitialized')]_vars
  /\ [][(mmCall.init.pc = "awaiting" /\ mmCall'.init.result = "resolved") =>
          (IsInitialized' /\ \A n \in ModelNames : managed'[n].load = "ok")]_vars
  /\ [](mmCall.init.result = "rejected" => ~IsInitialized)

\* the CacheManagers of model n whose hooks are attached and whose timers
\* run: the one in the map once its autoLoad has completed, and one that
\* an earlier init() created and a later init() replaced in the map
LiveManagers(n) ==
  (IF n \in multi.managers /\ managed[n].ready THEN 1 ELSE 0)
    + (IF n \in multi.orphans THEN 1 ELSE 0)

\* C36: no model name ever has more than one CacheManager with attached
\* hooks and running timers, whatever init() calls are made.
C36_OneManagerPerModel ==
  \A n \in ModelNames : LiveManagers(n) <= 1

\* what a waitUntilReady(timeoutMs) call may do when it is made (always: on
\* every orchestrator; otherwise only on an initialized one) and when its
\* race is decided
WaitRaces(always) ==
  /\ \A t \in 1..MaxTimeout :
        MmWaitUntilReady(t) =>
          LET w == mmCall'.wait
              ps == multi.managers
          IN IF ~always /\ ~multi.initialized
               THEN w.result = "notInitialized"
               ELSE /\ w.result \in {"none", "resolved"} \cup (IF always THEN {} ELSE {"rejected"})
                    /\ w.pc = "racing" =>
                          /\ w.deadline = now + t
                          /\ \E n \in ps : managed[n].readyPromise = "pending"
                    /\ w.result = "resolved" =>
                          \A n \in ps : managed[n].readyPromise \in {"none", "resolved"}
                    /\ w.result = "rejected" =>
                          \E n \in ps : managed[n].readyPromise = "rejected"
  /\ (mmCall.wait.pc = "racing" /\ mmCall'.wait.pc = "done") =>
        LET w == mmCall.wait
            r == mmCall'.wait.result
        IN /\ r \in {"timeout", "resolved"} \cup (IF always THEN {} ELSE {"rejected"})
           /\ r = "timeout" =>
                 /\ now' >= w.deadline
                 /\ managed' = managed
                 /\ \E n \in w.awaiting : managed'[n].load = "fetching"
           /\ r = "resolved" =>
                 /\ now' < w.deadline
                 /\ \A n \in w.awaiting : managed'[n].readyPromise = "resolved"
           /\ r = "rejected" =>
                 \E n \in w.awaiting : managed'[n].readyPromise = "rejected"

SoloOps == 3

InitSolo ==
  \E ms \in {0, 1} :
    InitWith(<<"email">>, 0, ms, FALSE, TRUE, TRUE, TRUE, 1, 0, 1, SoloOps)

NoSyncInFlight == \A p \in Syncers : syncCall[p].pc = "idle"

\* no hooks are attached, and between the start and the end of a sync
\* nothing else happens but the external store going down or coming back
NextSolo ==
  \/ NoSyncInFlight /\ Tick
  \/ RedisFlip
  \/ NoSyncInFlight /\ \E i \in Ids, e \in Emails \cup {NullValue} : DbUpdate(i, e)
  \/ NoSyncInFlight /\ \E arr \in PlainArrays : LoadFromJSON(arr, FALSE)
  \/ \E p \in Syncers, inc \in BOOLEAN : SyncStart(p, inc)
  \/ \E p \in Syncers : SyncAnswer(p)
  \/ \E p \in Syncers : SyncFail(p)
  \/ \E p \in Syncers : SyncResume(p)
  \/ \E p \in Syncers : SyncAfterClear(p)
  \/ \E p \in Syncers : SyncAfterPipeline(p)

SpecSolo == InitSolo /\ [][NextSolo]_vars

\* the step in which the sync of mode `mode` finishes its try block
SyncCompletes(p, mode) ==
  /\ syncCall[p].pc # "idle"
  /\ syncCall[p].mode = mode
  /\ syncCall'[p].pc = "idle"
  /\ syncCall'[p].outcome = "ok"

Fetched(p) == SeqSet(syncCall[p].rows)

\* C28: when a full sync completes with nothing else touching the cache and
\* maxSize unset or not smaller than the fetched set, the Entry Store holds
\* exactly the fetched records, the bucket of the key field holds exactly
\* their non-null key values, and lastSyncAt is set.
C28_FullSyncReplaces ==
  [][\A p \in Syncers :
       (SyncCompletes(p, "full") /\ (maxSize = 0 \/ maxSize >= Len(syncCall[p].rows))) =>
         LET keyed == {r \in Fetched(p) : r.email # NullValue}
             bucket == IF "email" \in DOMAIN cache'.byKey
                         THEN cache'.byKey["email"] ELSE EmptyMap
         IN /\ DOMAIN cache'.id = {Str(r.id) : r \in Fetched(p)}
            /\ \A r \in Fetched(p) : cache'.id[Str(r.id)].data = r
            /\ DOMAIN bucket = {r.email : r \in keyed}
            /\ \A v \in DOMAIN bucket : bucket[v].data \in keyed /\ bucket[v].data.email = v
            /\ lastSyncAt' # 0]_vars

\* a full sync has completed over two fetched records, one of them without
\* a key value
C28_Witness ==
  \E p \in Syncers :
    /\ syncCall[p].pc = "idle" /\ syncCall[p].outcome = "ok" /\ syncCall[p].mode = "full"
    /\ Len(syncCall[p].rows) = 2
    /\ \E r \in Fetched(p) : r.email = NullValue
    /\ Cardinality(DOMAIN cache.id) = 2
    /\ lastSyncAt # 0

FetchedIds(p) == {r.id : r \in Fetched(p)}

\* the entries of the record `k` are where and what they were
EntryKept(k) == k \in DOMAIN cache'.id /\ cache'.id[k] = cache.id[k]

BucketKept(f, v) ==
  /\ f \in DOMAIN cache'.byKey
  /\ v \in DOMAIN cache'.byKey[f]
  /\ cache'.byKey[f][v] = cache.byKey[f][v]

\* C29: an incremental sync leaves every Entry Store entry and every
\* secondary-index entry of a record it did not fetch present and unchanged.
C29_IncrementalKeepsOthers ==
  [][\A p \in Syncers :
       SyncCompletes(p, "inc") =>
         /\ \A k \in DOMAIN cache.id :
              cache.id[k].data.id \notin FetchedIds(p) => EntryKept(k)
         /\ \A f \in DOMAIN cache.byKey : \A v \in DOMAIN cache.byKey[f] :
              cache.byKey[f][v].data.id \notin FetchedIds(p) => BucketKept(f, v)]_vars

\* the stored and the fetched records fit together under maxSize
FitsWith(p) ==
  \/ maxSize = 0
  \/ Cardinality(DOMAIN cache.id \cup {Str(i) : i \in FetchedIds(p)}) <= maxSize

\* C29 (amended): when the stored and the fetched records fit under maxSize,
\* an incremental sync leaves every Entry Store entry of a record it did not
\* fetch present and unchanged, and every secondary-index entry of such a
\* record too unless a fetched record carries the same key value.
C29_IncrementalKeepsOthersWithinCapacity ==
  [][\A p \in Syncers :
       (SyncCompletes(p, "inc") /\ FitsWith(p)) =>
         /\ \A k \in DOMAIN cache.id :
              cache.id[k].data.id \notin FetchedIds(p) => EntryKept(k)
         /\ \A f \in DOMAIN cache.byKey : \A v \in DOMAIN cache.byKey[f] :
              (/\ cache.byKey[f][v].data.id \notin FetchedIds(p)
               /\ \A r \in Fetched(p) : FieldVal(r, f) # v) => BucketKept(f, v)]_vars

\* an incremental sync has merged one fetched record into a store that also
\* holds a record it did not fetch
C29_Witness ==
  \E p \in Syncers :
    /\ syncCall[p].pc = "idle" /\ syncCall[p].outcome = "ok" /\ syncCall[p].mode = "inc"
    /\ Len(syncCall[p].rows) = 1
    /\ \E k \in DOMAIN cache.id : cache.id[k].data.id \notin FetchedIds(p)
    /\ "email" \in DOMAIN cache.byKey
    /\ \E v \in DOMAIN cache.byKey["email"] :
         cache.byKey["email"][v].data.id \notin FetchedIds(p)

\* ---- hooks against fetches in flight --------------------------------------
HookedOps == 4

InitHooked ==
  InitWith(<<"email">>, 0, 0, TRUE, TRUE, FALSE, TRUE, 1, 1, 1, HookedOps)

\* the table changes only while the hooks are attached, so that every
\* create, update and destroy reaches the cache
NextHooked ==
  \/ AttachHooks
  \/ modelHooks > 0 /\ \E i \in Ids, e \in Emails : DbCreate(i, e)
  \/ modelHooks > 0 /\ \E i \in Ids, e \in Emails : DbUpdate(i, e)
  \/ modelHooks > 0 /\ \E i \in Ids : DbDestroy(i)
  \/ \E c \in Callers, i \in Ids : GetById(c, i)
  \/ \E fid \in 1..(2 * MaxSlots) : FetchAnswer(fid)
  \/ \E fid \in 1..(2 * MaxSlots) : FetchSettle(fid)
  \/ \E p \in Syncers, inc \in BOOLEAN : SyncStart(p, inc)
  \/ \E p \in Syncers : SyncAnswer(p)
  \/ \E p \in Syncers : SyncFail(p)
  \/ \E p \in Syncers : SyncResume(p)
  \/ \E p \in Syncers : SyncAfterClear(p)

SpecHooked == InitHooked /\ [][NextHooked]_vars

\* no sync and no lazy load is in flight
Settled ==
  /\ \A p \in Syncers : syncCall[p].pc = "idle"
  /\ \A c \in Callers : call[c].pc \in {"idle", "done"}
  /\ fetches = {}
  /\ loadingPromises = EmptyMap

\* C27: when every change of the table reached the cache through its hooks
\* and no sync or lazy load is in flight, every Entry Store entry holds the
\* current row of its record and no entry exists for a deleted record.
C27_SettledCacheIsCurrent ==
  Settled =>
    \A k \in DOMAIN cache.id :
      LET data == cache.id[k].data
      IN data.id \in DOMAIN db /\ data.email = db[data.id].email

\* C35: a step that removes records from the Entry Store leaves in place
\* every secondary-index entry that refers to a record that stays cached,
\* also one filed under a key value that a removed record has too.
C35_RemovalSparesOthers ==
  [][Leaving # {} =>
       \A f \in DOMAIN cache.byKey : \A v \in DOMAIN cache.byKey[f] :
         LET y == Str(cache.byKey[f][v].data.id)
         IN (y \in DOMAIN cache.id /\ y \notin Leaving) => BucketKept(f, v)]_vars

\* ---- the read operations under backend failures ------------------------
ReadOps == 3

\* value lists handed to getManyByKey
ValueLists == {<<"a">>, <<"a", "b">>}

InitRead ==
  InitWith(<<"email">>, 1, 0, TRUE, TRUE, TRUE, TRUE, 1, 1, 0, ReadOps)

NextRead ==
  \/ Tick
  \/ RedisFlip
  \/ \E arr \in PlainArrays : LoadFromJSON(arr, FALSE)
  \/ \E c \in Callers, i \in Ids : GetById(c, i)
  \/ \E c \in Callers : GetByIdRestore(c)
  \/ \E c \in Callers, v \in Emails : GetByKey(c, "email", v)
  \/ \E fid \in 1..(2 * MaxSlots) : FetchAnswer(fid)
  \/ \E fid \in 1..(2 * MaxSlots) : FetchSettle(fid)
  \/ \E c \in Callers, vs \in ValueLists : GetManyByKey(c, "email", vs)
  \/ \E c \in Callers : ManyAnswer(c)
  \/ \E c \in Callers : ManyResume(c)
  \/ \E c \in Callers : GetAll(c)

SpecRead == InitRead /\ [][NextRead]_vars

\* C8: no getById, getByKey, getManyByKey or getAll ends by raising or
\* rejecting, whatever the backing store and the external store do.
C8_ReadsNeverRaise ==
  \A c \in Callers : call[c].pc = "done" => call[c].result.kind # "raise"

\* the step in which getManyByKey returns after a fulfilled findAll
ManyReturns(c) ==
  /\ call[c].pc = "manyAnswered"
  /\ call[c].reply.kind # "raise"
  /\ call'[c].pc = "done"

\* C32: getManyByKey returns one entry per requested value: the record that
\* was cached and unexpired at the call, otherwise a record the findAll
\* returned for that value, or, when the findAll returned none, null or a
\* record cached unexpired in the meantime.
C32_ManyByKeyResult ==
  [][\A c \in Callers :
       ManyReturns(c) =>
         LET wanted == SeqRange(call[c].values)
             res == call'[c].many
             fetched(v) == {r \in SeqSet(call[c].rows) : FieldVal(r, call[c].field) = v}
         IN /\ DOMAIN res = wanted
            /\ \A v \in wanted :
                 IF v \in DOMAIN call[c].many
                   THEN res[v] = call[c].many[v]
                   ELSE IF fetched(v) # {}
                     THEN res[v].kind = "row" /\ res[v].val \in fetched(v)
                     ELSE \/ res[v].kind = "null"
                          \/ /\ HasKey(Store, call[c].field, v)
                             /\ IsLive(cache.byKey[call[c].field][v], now)
                             /\ res[v] = RowResult(cache.byKey[call[c].field][v].data)]_vars

\* ---- the auto-refresh timer -------------------------------------------------
RefreshOps == 4

Refreshed == Event("A", "refreshed", "-", "-")

\* `Date.now() - this.lastAutoSync < this.minAutoSyncInterval`; lastAutoSync
\* is 0 until the first attempt, and the clock is far beyond any spacing
TooSoon == lastAutoSync # 0 /\ now - lastAutoSync < minAutoSyncInterval

\* a sync awaited by the timer callback has settled and the callback has not
\* continued yet; the continuation runs before any other timer or I/O event
RefreshUnsettled == refreshCall.pc = "awaiting" /\ syncCall[refreshCall.p].pc = "idle"

\* the setInterval callback up to `await this.sync(true)`.  A sync() that
\* finds another sync in progress returns at once, and the callback goes on
\* to emit "refreshed".
RefreshTick(p) ==
  /\ Spend
  /\ refreshTimer
  /\ ~RefreshUnsettled
  /\ ~AwaitedByAutoLoad(p)
  /\ syncCall[p].pc = "idle"
  /\ IF TooSoon
       THEN UNCHANGED <<refreshVars, syncVars, emitted>>
       ELSE /\ lastAutoSync' = now
            /\ SyncBegin(p, TRUE)
            /\ UNCHANGED lastSyncAt
            /\ IF SyncRejected
                 THEN /\ emitted' = Append(emitted, Refreshed)
                      /\ refreshCall' = [refreshCall EXCEPT
                            !.attempts = Append(@, now), !.result = "refreshed"]
                 ELSE /\ refreshCall' = [refreshCall EXCEPT !.pc = "awaiting", !.p = p,
                            !.attempts = Append(@, now), !.result = "none"]
                      /\ UNCHANGED emitted
  /\ UNCHANGED <<configVars, multiVars, lifeVars, clusterVars, envVars, failures, storeVars,
                 loaderVars, call, errorListeners, errors, hookVars, cleanupTimer>>

\* the callback after `await this.sync(true)`: "refreshed" when the promise
\* was fulfilled; when it was rejected the catch block emits "error", which
\* throws again when nobody listens
RefreshSettle ==
  /\ RefreshUnsettled
  /\ IF syncCall[refreshCall.p].outcome = "raise"
       THEN /\ errors' = Append(errors, syncCall[refreshCall.p].cause)
            /\ refreshCall' = [refreshCall EXCEPT !.pc = "idle", !.result =
                  IF EmitErrorThrows THEN "raise" ELSE "error"]
            /\ UNCHANGED emitted
       ELSE /\ emitted' = Append(emitted, Refreshed)
            /\ refreshCall' = [refreshCall EXCEPT !.pc = "idle", !.result = "refreshed"]
            /\ UNCHANGED errors
  /\ UNCHANGED <<configVars, multiVars, lifeVars, clusterVars, envVars, failures, storeVars,
                 syncVars, loaderVars, call, errorListeners, hookVars, cleanupTimer, budget,
                 lastAutoSync>>

InitRefresh ==
  \E listeners \in {0, 1}, spacing \in {0, 2} :
    /\ InitCore(<<"email">>, 0, 0, TRUE, TRUE, FALSE, TRUE, listeners, 0, 2, RefreshOps)
    /\ InitOptions(TRUE, FALSE, spacing)

NextRefresh ==
  \/ ~RefreshUnsettled /\ Tick
  \/ ~RefreshUnsettled /\ \E p \in Syncers : AutoLoad(p)
  \/ AutoLoadThen
  \/ ~RefreshUnsettled /\ \E p \in Syncers : SyncStart(p, TRUE)
  \/ \E p \in Syncers : SyncAnswer(p)
  \/ \E p \in Syncers : SyncFail(p)
  \/ \E p \in Syncers : SyncResume(p)
  \/ \E p \in Syncers : SyncAfterClear(p)
  \/ \E p \in Syncers : RefreshTick(p)
  \/ RefreshSettle

SpecRefresh == InitRefresh /\ [][NextRefresh]_vars

\* the timer callback runs, passes the spacing test and calls sync(true)
TickRuns == lastAutoSync' # lastAutoSync \/ refreshCall'.attempts # refreshCall.attempts

\* C40: the timer stays set whatever a tick does; a tick that passes the
\* spacing test starts a sync in the mode sync(true) selects, and when that
\* sync has settled the callback emits "refreshed"; and any two attempts of
\* the timer are at least minAutoSyncInterval apart.
C40_TimerKeepsRefreshing ==
  /\ [][refreshTimer => refreshTimer']_vars
  /\ [][TickRuns =>
          \E p \in Syncers :
            /\ syncCall[p].pc = "idle"
            /\ syncCall'[p].pc = "fetching"
            /\ syncCall'[p].mode = SyncMode(TRUE)
            /\ refreshCall'.pc = "awaiting"
            /\ refreshCall'.p = p]_vars
  /\ [][RefreshSettle => emitted' = Append(emitted, Refreshed)]_vars
  /\ [](\A j, k \in DOMAIN refreshCall.attempts :
          j < k => refreshCall.attempts[k] - refreshCall.attempts[j] >= minAutoSyncInterval)

====
